---- MODULE Spec2Model ----
(***************************************************************************)
(* Model of auto_translate_localizables/translator.py: the placeholder     *)
(* codec, the skip policy, the validator, translate_text and the           *)
(* read-modify-write cycle of process_xliff_file.                          *)
(*                                                                         *)
(* A text is a sequence of characters; a character is a one-element atom   *)
(* written as a TLA+ string ("%", "d", ...).                               *)
(***************************************************************************)
EXTENDS Integers, Sequences, FiniteSets, TLC

\* ------------------------------------------------------------------ bounds
\* Longest generated source text of the unit-level specification, in tokens.
MaxTokens == 3
\* Longest answer of the translation service, in answer tokens.
MaxResp == 3
\* Most translation units in a document of the file-level specification.
MaxUnits == 2
\* Most .xliff files in the folders of a workspace that are processed.
MaxFiles == 2
\* Most units one file of the batch-level specification has translated.
MaxCount == 1

\* ------------------------------------------------------- sequence helpers
Range(s) == {s[i] : i \in 1..Len(s)}

Min(a, b) == IF a < b THEN a ELSE b

RECURSIVE Flatten(_)
Flatten(ss) == IF ss = <<>> THEN <<>> ELSE Head(ss) \o Flatten(Tail(ss))

\* s[a..b] (1-based, inclusive), empty when b < a.
Slice(s, a, b) == IF b < a THEN <<>> ELSE SubSeq(s, a, b)

\* old occurs in s at position i
OccursAt(s, old, i) ==
    /\ i >= 1
    /\ i + Len(old) - 1 <= Len(s)
    /\ \A k \in 1..Len(old) : s[i + k - 1] = old[k]

\* str.find: first position of old in s at or after position from, 0 if none
RECURSIVE FindFrom(_, _, _)
FindFrom(s, old, from) ==
    IF from + Len(old) - 1 > Len(s) THEN 0
    ELSE IF OccursAt(s, old, from) THEN from
    ELSE FindFrom(s, old, from + 1)

\* str.replace(old, new, 1) for a non-empty old
ReplaceFirst(s, old, new) ==
    LET p == FindFrom(s, old, 1)
    IN  IF p = 0 THEN s
        ELSE Slice(s, 1, p - 1) \o new \o Slice(s, p + Len(old), Len(s))

\* str.replace(old, new) for a non-empty old: every non-overlapping
\* occurrence, left to right, in one pass (the replacement is not rescanned)
RECURSIVE ReplaceAll(_, _, _)
ReplaceAll(s, old, new) ==
    LET p == FindFrom(s, old, 1)
    IN  IF p = 0 THEN s
        ELSE Slice(s, 1, p - 1) \o new
             \o ReplaceAll(Slice(s, p + Len(old), Len(s)), old, new)

\* ------------------------------------------------------------- characters
Whitespace == {" ", "\n", "\t", "\r"}
Digits == {"0", "1", "2", "3", "4", "5", "6", "7", "8", "9"}
\* the character class [@dlld]
SpecClass == {"@", "d", "l"}

\* number of characters of s from position i on that belong to class
RECURSIVE RunLen(_, _, _)
RunLen(s, i, class) ==
    IF i <= Len(s) /\ s[i] \in class THEN 1 + RunLen(s, i + 1, class) ELSE 0

\* number of characters of s from position i down that belong to class
RECURSIVE RunLenBack(_, _, _)
RunLenBack(s, i, class) ==
    IF i >= 1 /\ s[i] \in class THEN 1 + RunLenBack(s, i - 1, class) ELSE 0

\* str.strip()
Strip(s) ==
    LET a == RunLen(s, 1, Whitespace)
        b == RunLenBack(s, Len(s), Whitespace)
    IN  IF a = Len(s) THEN <<>> ELSE SubSeq(s, a + 1, Len(s) - b)

\* first position >= i holding ")" with no newline before it, 0 if none
\* (the lazy .*? of the $(...) alternative; "." does not match a newline)
RECURSIVE CloseParen(_, _)
CloseParen(s, i) ==
    IF i > Len(s) THEN 0
    ELSE IF s[i] = ")" THEN i
    ELSE IF s[i] = "\n" THEN 0
    ELSE CloseParen(s, i + 1)

DigitChar(n) == CASE n = 0 -> "0" [] n = 1 -> "1" [] n = 2 -> "2" [] n = 3 -> "3"
                  [] n = 4 -> "4" [] n = 5 -> "5" [] n = 6 -> "6" [] n = 7 -> "7"
                  [] n = 8 -> "8" [] OTHER -> "9"

\* str(n) for n >= 0
RECURSIVE Decimal(_)
Decimal(n) == IF n < 10 THEN <<DigitChar(n)>>
              ELSE Decimal(n \div 10) \o <<DigitChar(n % 10)>>

\* ------------------------------------------------- PLACEHOLDER_PATTERN
\* The two non-ASCII alternatives are spelled in the source file as the
\* character sequences A-circumflex, degree and eth, Y-diaeresis, right
\* single quote, section sign; each character is named here.
UNITS == { <<"k","g">>, <<"l","b","s">>, <<"m","l">>, <<"o","z">>,
           <<"m","i","n">>, <<"s","e","c">>, <<"h","r">>, <<"k","m">>,
           <<"m","i">>, <<"f","t">>, <<"i","n">>, <<"m">>, <<"c","m">> }

At(s, i) == IF i >= 1 /\ i <= Len(s) THEN s[i] ELSE "<eof>"

\* %[@dlld]+
MatchSpec(s, i) ==
    LET r == RunLen(s, i + 1, SpecClass)
    IN  IF At(s, i) = "%" /\ r >= 1 THEN 1 + r ELSE 0

\* %\d+\$[@dlld]+
MatchPositional(s, i) ==
    LET d == RunLen(s, i + 1, Digits)
        r == RunLen(s, i + 2 + d, SpecClass)
    IN  IF At(s, i) = "%" /\ d >= 1 /\ At(s, i + 1 + d) = "$" /\ r >= 1
        THEN 2 + d + r ELSE 0

\* \$\(.*?\)
MatchVariable(s, i) ==
    LET c == CloseParen(s, i + 2)
    IN  IF At(s, i) = "$" /\ At(s, i + 1) = "(" /\ c > 0 THEN c - i + 1 ELSE 0

\* \{\d+\}
MatchBrace(s, i) ==
    LET d == RunLen(s, i + 1, Digits)
    IN  IF At(s, i) = "{" /\ d >= 1 /\ At(s, i + 1 + d) = "}" THEN d + 2 ELSE 0

\* the temperature alternative, as the file spells it
MatchTemperature(s, i) ==
    IF At(s, i) = "Acirc" /\ At(s, i + 1) = "deg" /\ At(s, i + 2) \in {"C", "F"}
    THEN 3 ELSE 0

\* the water-drop alternative, as the file spells it
MatchEmoji(s, i) ==
    IF /\ At(s, i) = "eth" /\ At(s, i + 1) = "Yuml"
       /\ At(s, i + 2) = "rsquo" /\ At(s, i + 3) = "sect"
    THEN 4 ELSE 0

\* Length of the match of PLACEHOLDER_PATTERN that starts at position i, 0 if
\* none: the alternatives are tried in the order the pattern lists them.
MatchLen(s, i) ==
    IF At(s, i) \notin {"%", "$", "{", "Acirc", "eth"} THEN 0
    ELSE LET a == MatchSpec(s, i)
             b == MatchPositional(s, i)
             c == MatchVariable(s, i)
             d == MatchBrace(s, i)
             e == MatchTemperature(s, i)
         IN  IF a > 0 THEN a
             ELSE IF b > 0 THEN b
             ELSE IF c > 0 THEN c
             ELSE IF d > 0 THEN d
             ELSE IF e > 0 THEN e
             ELSE MatchEmoji(s, i)

\* PLACEHOLDER_PATTERN.findall / finditer from position i on: the matched
\* substrings, leftmost first, non-overlapping
RECURSIVE FindAllFrom(_, _)
FindAllFrom(s, i) ==
    IF i > Len(s) THEN <<>>
    ELSE LET n == MatchLen(s, i)
         IN  IF n > 0 THEN <<SubSeq(s, i, i + n - 1)>> \o FindAllFrom(s, i + n)
             ELSE FindAllFrom(s, i + 1)

FindAll(s) == FindAllFrom(s, 1)

\* PLACEHOLDER_PATTERN.sub('', s) from position i on
RECURSIVE RemoveAllFrom(_, _)
RemoveAllFrom(s, i) ==
    IF i > Len(s) THEN <<>>
    ELSE LET n == MatchLen(s, i)
         IN  IF n > 0 THEN RemoveAllFrom(s, i + n)
             ELSE <<s[i]>> \o RemoveAllFrom(s, i + 1)

PatternSub(s) == RemoveAllFrom(s, 1)

\* ------------------------------------------------- PlaceholderValidator
NoError == [kind |-> "none", sub |-> "", names |-> {}, no |-> 0, nt |-> 0]

\* validate with the comparison of lines 80-82 left out
validate_noextra(original, translated) ==
    LET o == FindAll(original)
        t == FindAll(translated)
        missing == Range(o) \ Range(t)
    IN  IF Len(o) # Len(t)
        THEN [ok |-> FALSE, sub |-> "count", names |-> {}, no |-> Len(o), nt |-> Len(t)]
        ELSE IF missing # {}
        THEN [ok |-> FALSE, sub |-> "missing", names |-> missing, no |-> 0, nt |-> 0]
        ELSE [ok |-> TRUE, sub |-> "", names |-> {}, no |-> 0, nt |-> 0]

\* the tuple (is_valid, error_message): the message is kept as its parts,
\* sub is which f-string built it, names the placeholders it lists, no and
\* nt the two counts it prints
validate(original, translated) ==
    LET o == FindAll(original)
        t == FindAll(translated)
        missing == Range(o) \ Range(t)
        extra == Range(t) \ Range(o)
    IN  IF Len(o) # Len(t)
        THEN [ok |-> FALSE, sub |-> "count", names |-> {}, no |-> Len(o), nt |-> Len(t)]
        ELSE IF missing # {}
        THEN [ok |-> FALSE, sub |-> "missing", names |-> missing, no |-> 0, nt |-> 0]
        ELSE IF extra # {}
        THEN [ok |-> FALSE, sub |-> "extra", names |-> extra, no |-> 0, nt |-> 0]
        ELSE [ok |-> TRUE, sub |-> "", names |-> {}, no |-> 0, nt |-> 0]

\* ------------------------------------------------------ XLIFFTranslator
\* f"__PH{i}__"
Marker(i) == <<"_", "_", "P", "H">> \o Decimal(i) \o <<"_", "_">>

\* the loop of extract_placeholders over matches[i..]: modified is the text
\* so far, acc the (marker, placeholder) pairs so far
RECURSIVE ExtractLoop(_, _, _, _)
ExtractLoop(matches, i, modified, acc) ==
    IF i > Len(matches) THEN [text |-> modified, placeholders |-> acc]
    ELSE ExtractLoop(matches, i + 1,
                     ReplaceFirst(modified, matches[i], Marker(i - 1)),
                     Append(acc, <<Marker(i - 1), matches[i]>>))

extract_placeholders(text) == ExtractLoop(FindAll(text), 1, text, <<>>)

RECURSIVE RestoreLoop(_, _, _)
RestoreLoop(text, placeholders, i) ==
    IF i > Len(placeholders) THEN text
    ELSE RestoreLoop(ReplaceAll(text, placeholders[i][1], placeholders[i][2]),
                     placeholders, i + 1)

restore_placeholders(text, placeholders) == RestoreLoop(text, placeholders, 1)

Punctuation == { <<".">>, <<",">>, <<"!">>, <<"?">>, <<".", ".", ".">>,
                 <<":">>, <<";">> }

\* a variant that does not look at UNITS
should_skip_translation_nounits(text) ==
    \/ Strip(text) = <<>>
    \/ Strip(PatternSub(text)) = <<>>
    \/ Strip(PatternSub(text)) \in Punctuation

\* lines 125-139
should_skip_translation(text) ==
    \/ Strip(text) = <<>>
    \/ Strip(text) \in UNITS
    \/ Strip(PatternSub(text)) = <<>>
    \/ Strip(PatternSub(text)) \in Punctuation

\* What the translation service does with one call: it raises (ok = FALSE)
\* or returns the text txt.
ServiceFailure == [ok |-> FALSE, txt |-> <<>>]
ServiceAnswer(t) == [ok |-> TRUE, txt |-> t]

ServiceError == [kind |-> "service", sub |-> "", names |-> {}, no |-> 0, nt |-> 0]

ValidationError(v) ==
    [kind |-> "validation", sub |-> v.sub, names |-> v.names, no |-> v.no, nt |-> v.nt]

\* the call made with the source text instead of the marker-substituted one
ServiceInput_source(text, ex) == text

\* line 171: what translator.translate is called with
ServiceInput(text, ex) == ex.text

\* a failed validation never rejected
Rejects_never(v, strict) == FALSE

\* a failed validation rejected whatever the policy
Rejects_always(v, strict) == ~v.ok

\* lines 179-182: the translation v was computed for is rejected
Rejects(v, strict) == ~v.ok /\ strict

\* a raised call answered with no error
OnServiceError_silent(text) == [out |-> text, err |-> NoError]

\* lines 188-190: the tuple returned when the call raised
OnServiceError(text) == [out |-> text, err |-> ServiceError]

\* The record kept for one call of translate_text when the service behaves
\* as svc and fail_on_placeholder_mismatch is strict.  out and err are the
\* returned tuple; calls holds the arguments of the service calls made (none
\* or one), validated whether PlaceholderValidator.validate ran, translated
\* the restored answer it was given, valid its verdict, warned whether the
\* [WARNING] line was printed.

\* lines 158-166: return text, None with no call made
Quiet(text) ==
    [out |-> text, err |-> NoError, calls |-> <<>>, validated |-> FALSE,
     translated |-> <<>>, valid |-> TRUE, warned |-> FALSE]

\* lines 188-190: the call made with sent raised, e is what is returned
Raised(sent, e) ==
    [out |-> e.out, err |-> e.err, calls |-> <<sent>>, validated |-> FALSE,
     translated |-> <<>>, valid |-> TRUE, warned |-> FALSE]

\* lines 174-175: the answer with its markers replaced, when there are any
Restored(txt, placeholders) ==
    IF placeholders # <<>> THEN restore_placeholders(txt, placeholders) ELSE txt

\* lines 178-186: v is what validate returned for translated
AfterValidate(text, sent, strict, translated, v) ==
    IF Rejects(v, strict)
    THEN [out |-> text, err |-> ValidationError(v), calls |-> <<sent>>,
          validated |-> TRUE, translated |-> translated, valid |-> FALSE,
          warned |-> FALSE]
    ELSE [out |-> translated, err |-> NoError, calls |-> <<sent>>,
          validated |-> TRUE, translated |-> translated, valid |-> v.ok,
          warned |-> ~v.ok]

\* line 178
AfterRestore(text, sent, strict, translated) ==
    AfterValidate(text, sent, strict, translated, validate(text, translated))

\* lines 165-190: ex is what extract_placeholders returned
AfterExtract(text, svc, strict, ex) ==
    IF Strip(ex.text) = <<>> THEN Quiet(text)
    ELSE IF ~svc.ok THEN Raised(ServiceInput(text, ex), OnServiceError(text))
    ELSE AfterRestore(text, ServiceInput(text, ex), strict,
                      Restored(svc.txt, ex.placeholders))

translate_text(text, svc, strict) ==
    IF should_skip_translation(text) THEN Quiet(text)
    ELSE AfterExtract(text, svc, strict, extract_placeholders(text))

\* ---------------------------------------------------------------- state
VARIABLES
    \* XLIFFTranslator
    strict,            \* self.fail_on_placeholder_mismatch
    run,               \* 1 in the first run of the tool over the file, 2 in the next
    errors,            \* self.errors: the records process_xliff_file appended
    \* one call of translate_text on its own
    text,              \* the argument text
    tpc,               \* "start", "called" (the service call is in flight), "done"
    ret,               \* the record translate_text returned
    calls,             \* the arguments of the service calls made so far
    \* the file system and the platform
    disk,              \* the bytes of the file at xliff_path
    \* one call of process_xliff_file
    dry_run,
    only_missing,
    pc,                \* where the call is
    original_content,  \* the local of that name
    has_original,      \* 'original_content' in locals()
    units,             \* the parsed tree: its trans-units in document order
    idx,               \* the unit the loop is at
    translated_count,
    pauses,            \* the calls of time.sleep made by the call so far
    error_count,
    modified,
    site,              \* which of the three restoring writes is running
    result,            \* the returned tuple
    \* history, kept to state the properties
    before,            \* the bytes of the file when the call began
    log,               \* one record per unit handed to translate_text
    persist_failed,    \* the write or its verification failed in this call
    wrote,             \* the file was opened for writing in this call
    verified           \* the re-read of line 314 found the declaration

fileLevelVars == <<strict, run, errors, text, tpc, ret, calls, disk, dry_run,
          only_missing, pc, original_content, has_original, units, idx,
          translated_count, pauses, error_count, modified, site, result, before,
          log,
          persist_failed, wrote, verified>>

textVars == <<text, tpc, ret>>

fileVars == <<errors, disk, dry_run, only_missing, pc,
              original_content, has_original, units, idx, translated_count, pauses,
              error_count, modified, site, result, before, log, persist_failed,
              wrote, verified>>

NoResult == [translated |-> -1, errors |-> -1]
NoReturn == [out |-> <<>>, err |-> NoError, calls |-> <<>>, validated |-> FALSE,
             translated |-> <<>>, valid |-> TRUE, warned |-> FALSE]

\* ------------------------------------------------ state of a batch
VARIABLES
    entry,             \* what was called: "cli" (cli.main) or "api"
                       \* (process_all_languages)
    ws,                \* the workspace: for the code of every .xcloc folder,
                       \* the .xliff files glob finds in it
    skip_arg,          \* skip_languages / args.skip: None or a set of codes
    only_arg,          \* args.only: None or the codes in the order given
    bpc,               \* where the batch is
    todo,              \* the codes the running for loop has not visited yet
    cur,               \* lang_code of the running process_language_folder
    files_todo,        \* the xliff_files its loop has not visited yet
    lang_results,      \* its local results
    results,           \* results of process_all_languages / main
    exit_code,         \* what main returned
    summary,           \* the totals print_summary printed
    \* history, kept to state the properties
    attempted,         \* one record per call of process_xliff_file
    raised             \* the codes whose process_language_folder raised

batchVars == <<entry, ws, skip_arg, only_arg, bpc, todo, cur, files_todo,
               lang_results, results, exit_code, summary, attempted, raised>>

\* ------------------------------------------------ state of the front end
VARIABLES
    workspace_dir,       \* LocalizationApp.workspace_dir: "None" or "set"
    detected_languages,  \* LocalizationApp.detected_languages
    selection,           \* the codes selected in lang_listbox
    default_lang,        \* default_lang_var
    is_translating,      \* LocalizationApp.is_translating
    translate_btn,       \* state of the Start button: "normal" or "disabled"
    stop_btn,            \* state of the Stop button
    workers,             \* the threads started by start_translation, each
                         \* with its position in run_translation
    pending              \* the calls of translation_finished that root.after
                         \* has queued

guiVars == <<workspace_dir, detected_languages, selection, default_lang,
             is_translating, translate_btn, stop_btn, workers, pending>>

\* the variables of a batch and of the front end, left alone by the
\* unit-level and file-level specifications
outerVars == <<batchVars, guiVars>>

vars == <<fileLevelVars, outerVars>>

\* an argument left at None, and one given as the codes cs
NoneArg == [none |-> TRUE, codes |-> <<>>]
Given(cs) == [none |-> FALSE, codes |-> cs]

\* the empty dict
EmptyDict == [k \in {} |-> 0]

NoSummary == [translations |-> -1, errors |-> -1]

BatchIdle ==
    /\ entry = "none"
    /\ ws = EmptyDict
    /\ skip_arg = NoneArg
    /\ only_arg = NoneArg
    /\ bpc = "idle"
    /\ todo = <<>>
    /\ cur = ""
    /\ files_todo = <<>>
    /\ lang_results = EmptyDict
    /\ results = EmptyDict
    /\ exit_code = -1
    /\ summary = NoSummary
    /\ attempted = <<>>
    /\ raised = {}

\* LocalizationApp.__init__ (lines 313-317) and the widgets of lines 385-403
GuiIdle ==
    /\ workspace_dir = "None"
    /\ detected_languages = <<>>
    /\ selection = {}
    /\ default_lang = "en"
    /\ is_translating = FALSE
    /\ translate_btn = "disabled"
    /\ stop_btn = "disabled"
    /\ workers = <<>>
    /\ pending = 0

\* ------------------------------------------------------------ input sets
T_PctAt == <<"%", "@">>
T_PctD == <<"%", "d">>
T_Hi == <<"H", "i">>
T_Yo == <<"Y", "o">>
T_Space == <<" ">>

\* the pieces source texts are built from: two format specifiers, a word
\* and a string that looks like the codec's first marker
SourceTokens == {T_PctAt, T_PctD, T_Hi, Marker(0)}

\* texts given one by one: white space, a specifier between spaces, a
\* specifier and a full stop, a unit abbreviation, a sentence with spaces, a
\* sentence with a quantity and its unit, and a sentence with three
\* specifiers of two kinds
T_PctLld == <<"%", "l", "l", "d">>
T_Ml == <<"m", "l">>
ExtraTexts ==
    { T_Space,
      T_Space \o T_PctD \o T_Space,
      T_PctD \o <<".">>,
      <<"k", "g">>,
      T_Space \o T_Hi \o T_Space \o T_PctD,
      T_Hi \o T_Space \o T_PctLld \o T_Space \o T_Ml,
      T_Hi \o T_PctAt \o T_PctAt \o T_PctD }

\* every concatenation of at most n members of tokens
SeqsUpTo(tokens, n) == UNION {[1..k -> tokens] : k \in 0..n}
TextsUpTo(tokens, n) == {Flatten(q) : q \in SeqsUpTo(tokens, n)}

SourceTexts == TextsUpTo(SourceTokens, MaxTokens) \cup ExtraTexts

\* what the service may answer to a text holding n markers: any short text
\* made of those markers (kept, dropped, repeated, reordered), a word and a
\* format specifier of its own
AnswerTokens(n) == {Marker(i) : i \in 0..(n - 1)} \cup {T_Yo, T_PctD}
\* an answer that keeps the first marker and writes a suffix that begins
\* with the letter d right after it
SuffixedAnswers(n) == IF n >= 1 THEN {Marker(0) \o <<"d">>} ELSE {}

Answers(n) == TextsUpTo(AnswerTokens(n), Min(MaxResp, n + 1)) \cup SuffixedAnswers(n)

\* ------------------------------------------------------------- the file
\* The bytes of a file are kept as a sequence of blocks: the XML declaration,
\* one block per trans-unit element, the line-ending bytes CR and LF one by
\* one, and a block of text that is not well-formed XML.
NoUnit == [src |-> <<>>, has |-> FALSE, tgt |-> <<>>, st |-> ""]
B_Decl == [k |-> "decl", u |-> NoUnit]
B_CR == [k |-> "cr", u |-> NoUnit]
B_LF == [k |-> "lf", u |-> NoUnit]
B_Junk == [k |-> "junk", u |-> NoUnit]
B_Unit(u) == [k |-> "unit", u |-> u]

\* open(path, 'r', encoding='utf-8').read(): text mode with universal
\* newlines turns CR LF and a lone CR into LF
RECURSIVE ReadText(_)
ReadText(bytes) ==
    IF bytes = <<>> THEN <<>>
    ELSE IF Head(bytes).k = "cr"
    THEN IF Len(bytes) >= 2 /\ bytes[2].k = "lf"
         THEN <<B_LF>> \o ReadText(Tail(Tail(bytes)))
         ELSE <<B_LF>> \o ReadText(Tail(bytes))
    ELSE <<Head(bytes)>> \o ReadText(Tail(bytes))

\* the bytes open(path, 'w', encoding='utf-8').write(content) produces: text
\* mode writes os.linesep for every LF
RECURSIVE WriteText(_, _)
WriteText(content, sep) ==
    IF content = <<>> THEN <<>>
    ELSE IF Head(content).k = "lf" THEN sep \o WriteText(Tail(content), sep)
    ELSE <<Head(content)>> \o WriteText(Tail(content), sep)

\* ET.parse succeeds
WellFormed(bytes) == \A i \in 1..Len(bytes) : bytes[i].k # "junk"

\* root.findall('.//xliff:trans-unit', ns): the units in document order
RECURSIVE ParseUnits(_)
ParseUnits(bytes) ==
    IF bytes = <<>> THEN <<>>
    ELSE IF Head(bytes).k = "unit" THEN <<Head(bytes).u>> \o ParseUnits(Tail(bytes))
    ELSE ParseUnits(Tail(bytes))

\* tree.write(path, encoding='UTF-8', xml_declaration=True, ...): the
\* declaration, then the elements, with LF line ends
RECURSIVE SerializeUnits(_)
SerializeUnits(us) ==
    IF us = <<>> THEN <<>>
    ELSE <<B_Unit(Head(us)), B_LF>> \o SerializeUnits(Tail(us))

Serialize(us) == <<B_Decl, B_LF>> \o SerializeUnits(us)

\* characters a block stands for: the declaration as tree.write emits it
\* (<?xml version='1.0' encoding='UTF-8'?>), one line-ending character, and
\* for an element the tags trans-unit, source and target around its two
\* texts
DeclChars == 38
UnitTagChars == 65
BlockChars(b) ==
    CASE b.k = "decl" -> DeclChars
      [] b.k = "unit" -> UnitTagChars + Len(b.u.src) + Len(b.u.tgt)
      [] OTHER -> 1

RECURSIVE CharsBefore(_, _)
CharsBefore(content, i) ==
    IF i <= 1 THEN 0 ELSE CharsBefore(content, i - 1) + BlockChars(content[i - 1])

\* '<?xml' in test_content[:100]
VerifyWindow == 100
DeclPrefixChars == 5
HasDeclaration(content) ==
    \E i \in 1..Len(content) :
        /\ content[i].k = "decl"
        /\ CharsBefore(content, i) + DeclPrefixChars <= VerifyWindow

\* ------------------------------------------------- documents to process
EOL_LF == <<B_LF>>
EOL_CRLF == <<B_CR, B_LF>>

\* os.linesep of the platform the tool runs on (POSIX)
os_linesep == EOL_LF

T_HiPctD == T_Hi \o T_PctD

\* the trans-units a document is made of: for the source text the service
\* is called for, a unit with no target element, with an empty one, with the
\* source copied into it, with the source copied after a space, with an
\* earlier translation, and with one flagged for review; for the source text
\* the skip policy keeps, a unit with no target; and a unit whose source and
\* target are the same blank text
UnitTemplates ==
    { [src |-> T_HiPctD, has |-> FALSE, tgt |-> <<>>, st |-> ""],
      [src |-> T_HiPctD, has |-> TRUE, tgt |-> <<>>, st |-> ""],
      [src |-> T_HiPctD, has |-> TRUE, tgt |-> T_HiPctD, st |-> ""],
      [src |-> T_HiPctD, has |-> TRUE, tgt |-> T_Space \o T_HiPctD, st |-> "translated"],
      [src |-> T_HiPctD, has |-> TRUE, tgt |-> T_Yo, st |-> "translated"],
      [src |-> T_HiPctD, has |-> TRUE, tgt |-> T_Yo, st |-> "needs-review-l10n"],
      [src |-> T_PctD, has |-> FALSE, tgt |-> <<>>, st |-> ""],
      [src |-> T_Space, has |-> TRUE, tgt |-> T_Space, st |-> ""] }

Documents == SeqsUpTo(UnitTemplates, MaxUnits)

RECURSIVE UnitLines(_, _)
UnitLines(us, eol) ==
    IF us = <<>> THEN <<>>
    ELSE <<B_Unit(Head(us))>> \o eol \o UnitLines(Tail(us), eol)

\* a well-formed file holding the units us, its lines ended by eol
FileBytes(us, eol) == <<B_Decl>> \o eol \o UnitLines(us, eol)

\* a file ET.parse rejects
BrokenFile(eol) == <<B_Decl>> \o eol \o <<B_Junk>> \o eol

Files ==
    {FileBytes(d, eol) : d \in Documents, eol \in {EOL_LF, EOL_CRLF}}
    \cup {BrokenFile(eol) : eol \in {EOL_LF, EOL_CRLF}}

\* what a write that raises leaves in the file it had emptied: nothing, or
\* all of content but its last block
PartialWrites(content) ==
    {<<>>} \cup {Slice(content, 1, Len(content) - 1)}

RECURSIVE MarkersOf(_)
MarkersOf(placeholders) ==
    IF placeholders = <<>> THEN <<>>
    ELSE Head(placeholders)[1] \o MarkersOf(Tail(placeholders))

\* what the service does with a unit of a document: it fails, it answers
\* with every marker kept, or it answers with every marker lost
FileOutcomes(src) ==
    LET ex == extract_placeholders(src)
    IN  {ServiceFailure, ServiceAnswer(T_Yo \o MarkersOf(ex.placeholders)),
         ServiceAnswer(T_Yo)}

\* ------------------------------------- Spec: one call of process_xliff_file
Init ==
    /\ strict \in BOOLEAN
    /\ run = 1
    /\ dry_run \in BOOLEAN
    /\ only_missing \in BOOLEAN
    /\ disk \in Files
    /\ before = disk
    /\ errors = <<>>
    /\ calls = <<>>
    /\ pc = "start"
    /\ original_content = <<>>
    /\ has_original = FALSE
    /\ units = <<>>
    /\ idx = 1
    /\ translated_count = 0
    /\ pauses = 0
    /\ error_count = 0
    /\ modified = FALSE
    /\ site = "none"
    /\ result = NoResult
    /\ log = <<>>
    /\ persist_failed = FALSE
    /\ wrote = FALSE
    /\ verified = FALSE
    /\ BatchIdle
    /\ GuiIdle
    /\ text = <<>>
    /\ tpc = "idle"
    /\ ret = NoReturn

loopVars == <<units, idx, translated_count, pauses, error_count, modified, errors, calls, log>>

\* lines 215-216
ReadOriginal ==
    /\ pc = "start"
    /\ original_content' = ReadText(disk)
    /\ has_original' = TRUE
    /\ pc' = "parse"
    /\ UNCHANGED <<outerVars, strict, run, textVars, disk, dry_run, only_missing,
                   site, result, before, persist_failed, wrote, verified,
                   loopVars>>

\* open() or read() raises: the handler of line 329 runs with no
\* original_content
ReadOriginalFails ==
    /\ pc = "start"
    /\ pc' = "except"
    /\ UNCHANGED <<outerVars, strict, run, textVars, disk, dry_run, only_missing,
                   original_content, has_original, site, result, before,
                   persist_failed, wrote, verified, loopVars>>

\* lines 219-234
ParseTree ==
    /\ pc = "parse"
    /\ WellFormed(disk)
    /\ units' = ParseUnits(disk)
    /\ idx' = 1
    /\ translated_count' = 0
    /\ error_count' = 0
    /\ modified' = FALSE
    /\ pc' = "loop"
    /\ UNCHANGED <<outerVars, strict, run, textVars, disk, dry_run, only_missing,
                   original_content, has_original, site, result, before,
                   persist_failed, wrote, verified, errors, calls, log,
                   pauses>>

\* ET.parse raises
ParseFails ==
    /\ pc = "parse"
    /\ ~WellFormed(disk)
    /\ pc' = "except"
    /\ UNCHANGED <<outerVars, strict, run, textVars, disk, dry_run, only_missing,
                   original_content, has_original, site, result, before,
                   persist_failed, wrote, verified, loopVars>>

\* line 239
SourceBlank(u) == Strip(u.src) = <<>>

\* the chain with the comparison of line 262 made whatever only_missing is
NeedsTranslation_alwaysidentical(u, om) ==
    \/ ~u.has
    \/ Strip(u.tgt) = <<>>
    \/ u.st = "needs-review-l10n"
    \/ Strip(u.tgt) = Strip(u.src)

\* the chain without the test of the state attribute of line 259
NeedsTranslation_noreview(u, om) ==
    \/ ~u.has
    \/ Strip(u.tgt) = <<>>
    \/ (om /\ Strip(u.tgt) = Strip(u.src))

\* the chain without the comparison of line 262
NeedsTranslation_noidentical(u, om) ==
    \/ ~u.has
    \/ Strip(u.tgt) = <<>>
    \/ u.st = "needs-review-l10n"

\* lines 248-265: needs_translation after the if/elif chain
NeedsTranslation(u, om) ==
    \/ ~u.has
    \/ Strip(u.tgt) = <<>>
    \/ u.st = "needs-review-l10n"
    \/ (om /\ Strip(u.tgt) = Strip(u.src))

InLoop == pc = "loop" /\ idx <= Len(units)

loopFrame == <<outerVars, strict, run, textVars, disk, dry_run, only_missing, pc,
               original_content, has_original, site, result, before,
               persist_failed, wrote, verified>>

\* lines 239-240: continue
UnitNoSource ==
    /\ InLoop
    /\ SourceBlank(units[idx])
    /\ idx' = idx + 1
    /\ UNCHANGED <<loopFrame, units, translated_count, pauses, error_count, modified,
                   errors, calls, log>>

\* lines 266-268: continue
UnitAlreadyTranslated ==
    /\ InLoop
    /\ ~SourceBlank(units[idx])
    /\ ~NeedsTranslation(units[idx], only_missing)
    /\ only_missing
    /\ idx' = idx + 1
    /\ UNCHANGED <<loopFrame, units, translated_count, pauses, error_count, modified,
                   errors, calls, log>>

\* needs_translation stays False and only_missing is unset
UnitKept ==
    /\ InLoop
    /\ ~SourceBlank(units[idx])
    /\ ~NeedsTranslation(units[idx], only_missing)
    /\ ~only_missing
    /\ idx' = idx + 1
    /\ UNCHANGED <<loopFrame, units, translated_count, pauses, error_count, modified,
                   errors, calls, log>>

SnippetLen == 50

\* a variant that sets the text of the target and leaves its state
ApplyTranslation_nostate(u, out, dry) ==
    IF dry THEN [u EXCEPT !.has = TRUE]
    ELSE [u EXCEPT !.has = TRUE, !.tgt = out]

\* lines 250-258 and 284-287: the target element is created when absent; its
\* text and state are set unless this is a dry run
ApplyTranslation(u, out, dry) ==
    IF dry THEN [u EXCEPT !.has = TRUE]
    ELSE [u EXCEPT !.has = TRUE, !.tgt = out, !.st = "translated"]

\* line 292: a pause is made every PauseEvery counted units
PauseEvery == 10

\* a variant that pauses when the count before the unit is a multiple
PauseAfter_before(count) == IF (count - 1) % PauseEvery = 0 THEN 1 ELSE 0

\* lines 292-293: the calls of time.sleep made once count units are counted
PauseAfter(count) == IF count % PauseEvery = 0 THEN 1 ELSE 0

\* a variant that counts a unit only when its target is set
UnitTranslated_countwritten(u, svc, r) ==
    /\ calls' = calls \o r.calls
    /\ error_count' = IF r.err.kind # "none" THEN error_count + 1
                      ELSE error_count
    /\ errors' = IF r.err.kind # "none"
                 THEN Append(errors, [text |-> Slice(u.src, 1, Min(SnippetLen, Len(u.src))),
                                      error |-> r.err])
                 ELSE errors
    /\ units' = [units EXCEPT ![idx] = ApplyTranslation(u, r.out, dry_run)]
    /\ modified' = (modified \/ ~dry_run)
    /\ translated_count' = IF dry_run THEN translated_count ELSE translated_count + 1
    /\ pauses' = pauses + PauseAfter(translated_count')
    /\ log' = Append(log, [unit |-> idx, src |-> u.src, svc |-> svc, r |-> r,
                           paused |-> pauses])

\* lines 276-293: r is what translate_text returned for unit u
UnitTranslated(u, svc, r) ==
    /\ calls' = calls \o r.calls
    /\ error_count' = IF r.err.kind # "none" THEN error_count + 1
                      ELSE error_count
    /\ errors' = IF r.err.kind # "none"
                 THEN Append(errors, [text |-> Slice(u.src, 1, Min(SnippetLen, Len(u.src))),
                                      error |-> r.err])
                 ELSE errors
    /\ units' = [units EXCEPT ![idx] = ApplyTranslation(u, r.out, dry_run)]
    /\ modified' = (modified \/ ~dry_run)
    /\ translated_count' = translated_count + 1
    /\ pauses' = pauses + PauseAfter(translated_count')
    /\ log' = Append(log, [unit |-> idx, src |-> u.src, svc |-> svc, r |-> r,
                           paused |-> pauses])

\* lines 270-293
UnitTranslate ==
    /\ InLoop
    /\ ~SourceBlank(units[idx])
    /\ NeedsTranslation(units[idx], only_missing)
    /\ \E svc \in FileOutcomes(units[idx].src) :
         UnitTranslated(units[idx], svc,
                        translate_text(units[idx].src, svc, strict))
    /\ idx' = idx + 1
    /\ UNCHANGED loopFrame

LoopDone == pc = "loop" /\ idx > Len(units)

Returned(t, e) == [translated |-> t, errors |-> e]

ioFrame == <<outerVars, strict, run, textVars, dry_run, only_missing, original_content,
             has_original, before, loopVars>>

\* line 296 false, line 327
FinishNoWrite ==
    /\ LoopDone
    /\ ~(~dry_run /\ modified)
    /\ result' = Returned(translated_count, error_count)
    /\ pc' = "done"
    /\ UNCHANGED <<ioFrame, disk, site, persist_failed, wrote, verified>>

\* line 296 true
BeginWrite ==
    /\ LoopDone
    /\ ~dry_run /\ modified
    /\ pc' = "write_open"
    /\ UNCHANGED <<ioFrame, disk, site, result, persist_failed, wrote, verified>>

\* lines 297-310, tree.write: the file is opened for writing in place, which
\* empties it
WriteOpen ==
    /\ pc = "write_open"
    /\ disk' = <<>>
    /\ pc' = "write_data"
    /\ wrote' = TRUE
    /\ UNCHANGED <<ioFrame, site, result, persist_failed, verified>>

\* tree.write cannot open the file
WriteOpenFails ==
    /\ pc = "write_open"
    /\ persist_failed' = TRUE
    /\ pc' = "except"
    /\ UNCHANGED <<ioFrame, disk, site, result, wrote, verified>>

\* tree.write writes the document and closes the file
WriteData ==
    /\ pc = "write_data"
    /\ disk' = Serialize(units)
    /\ pc' = "verify"
    /\ UNCHANGED <<ioFrame, site, result, persist_failed, wrote, verified>>

\* tree.write raises after a part of the document reached the file
WriteDataFails ==
    /\ pc = "write_data"
    /\ disk' \in PartialWrites(Serialize(units))
    /\ persist_failed' = TRUE
    /\ pc' = "except"
    /\ UNCHANGED <<ioFrame, site, result, wrote, verified>>

\* lines 313-320 and 327: the re-read succeeds; the result is returned when
\* the declaration is found, else the first restoring write begins
Verify ==
    /\ pc = "verify"
    /\ IF HasDeclaration(ReadText(disk))
       THEN /\ result' = Returned(translated_count, error_count)
            /\ pc' = "done"
            /\ verified' = TRUE
            /\ UNCHANGED <<site, persist_failed>>
       ELSE /\ site' = "A"
            /\ persist_failed' = TRUE
            /\ pc' = "restore_open"
            /\ UNCHANGED <<result, verified>>
    /\ UNCHANGED <<ioFrame, disk, wrote>>

\* lines 321-323: the re-read raises
VerifyReadFails ==
    /\ pc = "verify"
    /\ persist_failed' = TRUE
    /\ site' = "B"
    /\ pc' = "restore_open"
    /\ UNCHANGED <<ioFrame, disk, result, wrote, verified>>

\* lines 329-338: the outer handler
HandleException ==
    /\ pc = "except"
    /\ IF has_original
       THEN /\ site' = "C"
            /\ pc' = "restore_open"
            /\ UNCHANGED result
       ELSE /\ result' = Returned(0, 1)
            /\ pc' = "done"
            /\ UNCHANGED site
    /\ UNCHANGED <<ioFrame, disk, persist_failed, wrote, verified>>

\* the two counts of lines 320 and 325 in the other order
RestoreResult_swapped(s, tc) == IF s = "C" THEN Returned(0, 1) ELSE Returned(tc, 0)

\* what a restoring write returns when it succeeds: lines 320, 325, 338
RestoreResult(s, tc) == IF s = "C" THEN Returned(0, 1) ELSE Returned(0, tc)

\* open(xliff_path, 'w') of lines 318, 323, 334 empties the file
RestoreOpen ==
    /\ pc = "restore_open"
    /\ disk' = <<>>
    /\ pc' = "restore_data"
    /\ wrote' = TRUE
    /\ UNCHANGED <<ioFrame, site, result, persist_failed, verified>>

\* f.write(original_content) and the close of the with block
RestoreData ==
    /\ pc = "restore_data"
    /\ disk' = WriteText(original_content, os_linesep)
    /\ result' = RestoreResult(site, translated_count)
    /\ pc' = "done"
    /\ UNCHANGED <<ioFrame, site, persist_failed, wrote, verified>>

\* where a raise inside a restoring write goes: from line 318 to the handler
\* of line 321, from line 323 to the handler of line 329, from line 334 to
\* the pass of line 337 and the return of line 338
RestoreRaised ==
    /\ IF site = "A"
       THEN /\ site' = "B"
            /\ pc' = "restore_open"
            /\ UNCHANGED result
       ELSE IF site = "B"
       THEN /\ pc' = "except"
            /\ UNCHANGED <<site, result>>
       ELSE /\ result' = Returned(0, 1)
            /\ pc' = "done"
            /\ UNCHANGED site
    /\ UNCHANGED <<ioFrame, persist_failed, wrote, verified>>

RestoreOpenFails ==
    /\ pc = "restore_open"
    /\ RestoreRaised
    /\ UNCHANGED disk

RestoreDataFails ==
    /\ pc = "restore_data"
    /\ RestoreRaised
    /\ disk' \in PartialWrites(WriteText(original_content, os_linesep))

\* the tool is run once more over the file as a run whose write was verified
\* left it, with the settings of that run and without only_missing: a new
\* XLIFFTranslator and a new call of process_xliff_file
Rerun ==
    /\ run = 1
    /\ pc = "done"
    /\ ~dry_run /\ ~only_missing
    /\ wrote /\ ~persist_failed /\ site = "none"
    /\ run' = 2
    /\ before' = disk
    /\ errors' = <<>>
    /\ calls' = <<>>
    /\ pc' = "start"
    /\ original_content' = <<>>
    /\ has_original' = FALSE
    /\ units' = <<>>
    /\ idx' = 1
    /\ translated_count' = 0
    /\ pauses' = 0
    /\ error_count' = 0
    /\ modified' = FALSE
    /\ result' = NoResult
    /\ log' = <<>>
    /\ wrote' = FALSE
    /\ verified' = FALSE
    /\ UNCHANGED <<outerVars, strict, textVars, disk, dry_run, only_missing, site,
                   persist_failed>>

Next ==
    \/ Rerun
    \/ ReadOriginal
    \/ ReadOriginalFails
    \/ ParseTree
    \/ ParseFails
    \/ UnitNoSource
    \/ UnitAlreadyTranslated
    \/ UnitKept
    \/ UnitTranslate
    \/ FinishNoWrite
    \/ BeginWrite
    \/ WriteOpen
    \/ WriteOpenFails
    \/ WriteData
    \/ WriteDataFails
    \/ Verify
    \/ VerifyReadFails
    \/ HandleException
    \/ RestoreOpen
    \/ RestoreData
    \/ RestoreOpenFails
    \/ RestoreDataFails

Spec == Init /\ [][Next]_vars

\* ------------------- SpecPause: one call of process_xliff_file over a file
\* ------------------- long enough for the pauses of line 292
MaxLong == 21

U_Need == [src |-> T_HiPctD, has |-> FALSE, tgt |-> <<>>, st |-> ""]

\* units that are not counted: one with a target that is settled, one with
\* a blank source
OddUnits ==
    { [src |-> T_HiPctD, has |-> TRUE, tgt |-> T_Yo, st |-> "translated"],
      [src |-> T_Space, has |-> TRUE, tgt |-> T_Space, st |-> ""] }

Repeat(u, n) == [i \in 1..n |-> u]

\* up to MaxLong units without a target, one of them replaced, in the long
\* documents, by a unit that is not counted
LongDocuments ==
    {Repeat(U_Need, n) : n \in 0..MaxLong}
    \cup {[Repeat(U_Need, n) EXCEPT ![p] = o] :
             n \in PauseEvery..MaxLong, p \in {1, PauseEvery}, o \in OddUnits}

LongFiles == {FileBytes(d, EOL_LF) : d \in LongDocuments} \cup {BrokenFile(EOL_LF)}

InitPause ==
    /\ strict = FALSE
    /\ run = 1
    /\ dry_run \in BOOLEAN
    /\ only_missing \in BOOLEAN
    /\ disk \in LongFiles
    /\ before = disk
    /\ errors = <<>>
    /\ calls = <<>>
    /\ pc = "start"
    /\ original_content = <<>>
    /\ has_original = FALSE
    /\ units = <<>>
    /\ idx = 1
    /\ translated_count = 0
    /\ pauses = 0
    /\ error_count = 0
    /\ modified = FALSE
    /\ site = "none"
    /\ result = NoResult
    /\ log = <<>>
    /\ persist_failed = FALSE
    /\ wrote = FALSE
    /\ verified = FALSE
    /\ BatchIdle
    /\ GuiIdle
    /\ text = <<>>
    /\ tpc = "idle"
    /\ ret = NoReturn

\* lines 270-293 when the service answers the call with every marker kept
UnitTranslateAnswered ==
    /\ UnitTranslate
    /\ log'[Len(log')].svc.ok
    /\ log'[Len(log')].r.valid

NextPause ==
    \/ Rerun
    \/ ReadOriginal
    \/ ReadOriginalFails
    \/ ParseTree
    \/ ParseFails
    \/ UnitNoSource
    \/ UnitAlreadyTranslated
    \/ UnitKept
    \/ UnitTranslateAnswered
    \/ FinishNoWrite
    \/ BeginWrite
    \/ WriteOpen
    \/ WriteOpenFails
    \/ WriteData
    \/ WriteDataFails
    \/ Verify
    \/ VerifyReadFails
    \/ HandleException
    \/ RestoreOpen
    \/ RestoreData
    \/ RestoreOpenFails
    \/ RestoreDataFails

SpecPause == InitPause /\ [][NextPause]_vars

\* ------------- SpecGuiFile: one call of process_xliff_file of the class
\* ------------- XLIFFTranslator of localization_app.py, which the worker of
\* ------------- the front end calls for each file.  Its lines 203-215 and
\* ------------- 253-258 are those of the core, and ReadOriginal,
\* ------------- ReadOriginalFails, ParseTree, ParseFails, BeginWrite,
\* ------------- WriteOpen, WriteOpenFails, WriteData and WriteDataFails stand
\* ------------- for them here.
U_NoSource == [src |-> <<>>, has |-> FALSE, tgt |-> <<>>, st |-> ""]

GuiDocuments == SeqsUpTo(UnitTemplates \cup {U_NoSource}, MaxUnits)

GuiFiles ==
    {FileBytes(d, eol) : d \in GuiDocuments, eol \in {EOL_LF, EOL_CRLF}}
    \cup {BrokenFile(eol) : eol \in {EOL_LF, EOL_CRLF}}

InitGuiFile ==
    /\ strict = FALSE
    /\ run = 1
    /\ dry_run = FALSE
    /\ only_missing = FALSE
    /\ disk \in GuiFiles
    /\ before = disk
    /\ errors = <<>>
    /\ calls = <<>>
    /\ pc = "start"
    /\ original_content = <<>>
    /\ has_original = FALSE
    /\ units = <<>>
    /\ idx = 1
    /\ translated_count = 0
    /\ pauses = 0
    /\ error_count = 0
    /\ modified = FALSE
    /\ site = "none"
    /\ result = NoResult
    /\ log = <<>>
    /\ persist_failed = FALSE
    /\ wrote = FALSE
    /\ verified = FALSE
    /\ BatchIdle
    /\ GuiIdle
    /\ text = <<>>
    /\ tpc = "idle"
    /\ ret = NoReturn

\* localization_app.py line 222: source.text is None for an empty element
GuiSourceMissing(u) == u.src = <<>>

\* localization_app.py lines 177-198: what translate_text returns for the
\* text src: src itself (skipped, or the service raised) or a text made of
\* the answer of the service
GuiTexts(src) == {src, T_Yo}

\* localization_app.py lines 222-223: continue
GuiUnitNoSource ==
    /\ InLoop
    /\ GuiSourceMissing(units[idx])
    /\ idx' = idx + 1
    /\ UNCHANGED <<loopFrame, units, translated_count, pauses, error_count, modified,
                   errors, calls, log>>

\* localization_app.py lines 225-241: needs_translation stays False
GuiUnitKept ==
    /\ InLoop
    /\ ~GuiSourceMissing(units[idx])
    /\ ~NeedsTranslation(units[idx], FALSE)
    /\ idx' = idx + 1
    /\ UNCHANGED <<loopFrame, units, translated_count, pauses, error_count, modified,
                   errors, calls, log>>

\* localization_app.py lines 243-251
GuiUnitTranslate ==
    /\ InLoop
    /\ ~GuiSourceMissing(units[idx])
    /\ NeedsTranslation(units[idx], FALSE)
    /\ \E out \in GuiTexts(units[idx].src) :
         /\ units' = [units EXCEPT ![idx] = ApplyTranslation(units[idx], out, FALSE)]
         /\ log' = Append(log, [unit |-> idx, src |-> units[idx].src, out |-> out])
    /\ modified' = TRUE
    /\ translated_count' = translated_count + 1
    /\ pauses' = pauses + PauseAfter(translated_count')
    /\ idx' = idx + 1
    /\ UNCHANGED <<loopFrame, error_count, errors, calls>>

\* what localization_app.py's process_xliff_file returns: a count
GuiReturned(n) == [translated |-> n]

\* localization_app.py line 253 false, line 260
GuiFinishNoWrite ==
    /\ LoopDone
    /\ ~modified
    /\ result' = GuiReturned(translated_count)
    /\ pc' = "done"
    /\ UNCHANGED <<ioFrame, disk, site, persist_failed, wrote, verified>>

\* localization_app.py line 260 after tree.write returned
GuiFinishWritten ==
    /\ pc = "verify"
    /\ result' = GuiReturned(translated_count)
    /\ pc' = "done"
    /\ UNCHANGED <<ioFrame, disk, site, persist_failed, wrote, verified>>

\* localization_app.py lines 262-264: the error is logged, 0 is returned
GuiHandleException ==
    /\ pc = "except"
    /\ result' = GuiReturned(0)
    /\ pc' = "done"
    /\ UNCHANGED <<ioFrame, disk, site, persist_failed, wrote, verified>>

NextGuiFile ==
    \/ ReadOriginal
    \/ ReadOriginalFails
    \/ ParseTree
    \/ ParseFails
    \/ GuiUnitNoSource
    \/ GuiUnitKept
    \/ GuiUnitTranslate
    \/ GuiFinishNoWrite
    \/ BeginWrite
    \/ WriteOpen
    \/ WriteOpenFails
    \/ WriteData
    \/ WriteDataFails
    \/ GuiFinishWritten
    \/ GuiHandleException

SpecGuiFile == InitGuiFile /\ [][NextGuiFile]_vars

\* ------------------------------------ SpecText: one call of translate_text
InitText ==
    /\ text \in SourceTexts
    /\ strict \in BOOLEAN
    /\ run = 1
    /\ tpc = "start"
    /\ ret = NoReturn
    /\ calls = <<>>
    /\ errors = <<>>
    /\ disk = <<>>
    /\ before = <<>>
    /\ dry_run = FALSE
    /\ only_missing = FALSE
    /\ pc = "idle"
    /\ original_content = <<>>
    /\ has_original = FALSE
    /\ units = <<>>
    /\ idx = 1
    /\ translated_count = 0
    /\ pauses = 0
    /\ error_count = 0
    /\ modified = FALSE
    /\ site = "none"
    /\ result = NoResult
    /\ log = <<>>
    /\ persist_failed = FALSE
    /\ wrote = FALSE
    /\ verified = FALSE
    /\ BatchIdle
    /\ GuiIdle

\* lines 158-166: the text is returned as it is, the service is not called
TextSkip ==
    /\ tpc = "start"
    /\ translate_text(text, ServiceFailure, strict).calls = <<>>
    /\ ret' = translate_text(text, ServiceFailure, strict)
    /\ tpc' = "done"
    /\ UNCHANGED <<outerVars, strict, run, text, calls, fileVars>>

\* lines 170-171: the service is called with the marker-substituted text
TextCall ==
    /\ tpc = "start"
    /\ translate_text(text, ServiceFailure, strict).calls # <<>>
    /\ calls' = calls \o translate_text(text, ServiceFailure, strict).calls
    /\ tpc' = "called"
    /\ UNCHANGED <<outerVars, strict, run, text, ret, fileVars>>

\* the file-level variables one call of translate_text leaves alone
textFrame == <<errors, disk, dry_run, only_missing, pc, original_content,
               has_original, units, idx, translated_count, pauses, error_count,
               modified, site, result, before, persist_failed, wrote, verified>>

\* the call returns r after the service behaved as svc; log keeps both
TextAnswered(svc, r) ==
    /\ ret' = r
    /\ log' = <<[unit |-> 0, src |-> text, svc |-> svc, r |-> r]>>

\* lines 173-186: the service answers
TextReturn ==
    /\ tpc = "called"
    /\ \E a \in Answers(Len(extract_placeholders(text).placeholders)) :
         TextAnswered(ServiceAnswer(a),
                      translate_text(text, ServiceAnswer(a), strict))
    /\ tpc' = "done"
    /\ UNCHANGED <<outerVars, strict, run, text, calls, textFrame>>

\* lines 188-190: the service raises
TextRaise ==
    /\ tpc = "called"
    /\ TextAnswered(ServiceFailure, translate_text(text, ServiceFailure, strict))
    /\ tpc' = "done"
    /\ UNCHANGED <<outerVars, strict, run, text, calls, textFrame>>

NextText == TextSkip \/ TextCall \/ TextReturn \/ TextRaise

SpecText == InitText /\ [][NextText]_vars

\* ------------------------- SpecBatch: one run of cli.main or of
\* ------------------------- process_all_languages
\* the locale codes of the folders a workspace may hold: three that
\* LANGUAGE_MAP has an entry for and one it has none for
Langs == {"de", "en", "fr", "xx"}

\* the keys of LANGUAGE_MAP among them
LANGUAGE_MAP == {"de", "en", "fr"}

\* a variant that falls back on the locale code itself
get_google_translate_code_fallback(code) == code

\* get_google_translate_code: LANGUAGE_MAP.get, "None" when there is no entry
get_google_translate_code(code) == IF code \in LANGUAGE_MAP THEN code ELSE "None"

\* sorted(lang_folders): the folders of one directory come in the order of
\* their names
LangOrder == <<"de", "en", "fr", "xx">>

\* an .xliff file of a language folder: the sub-directory it lies in and its
\* name
P_AX == [dir |-> "a", name |-> "x.xliff"]
P_BX == [dir |-> "b", name |-> "x.xliff"]
P_AY == [dir |-> "a", name |-> "y.xliff"]
PathOrder == <<P_AX, P_BX, P_AY>>

\* the first n paths of PathOrder that are in the set ps, in that order
RECURSIVE PathList(_, _)
PathList(ps, i) ==
    IF i > Len(PathOrder) THEN <<>>
    ELSE IF PathOrder[i] \in ps THEN <<PathOrder[i]>> \o PathList(ps, i + 1)
    ELSE PathList(ps, i + 1)

\* what lang_folder.glob("**/*.xliff") may return: no file, or up to MaxFiles
\* files, two of which may bear the same name in different sub-directories
FileLists ==
    {PathList(ps, 1) : ps \in {q \in SUBSET Range(PathOrder) :
                                  Cardinality(q) <= MaxFiles}}

\* the number of files of the folder l of the workspace w
FilesIn(w, l) == IF l \in DOMAIN w THEN Len(w[l]) ELSE 0

\* the workspaces: the folder de holds any list of files, the folders en, fr
\* and xx are absent or hold one file, and de and fr together hold at most
\* MaxFiles files
Workspaces ==
    {w \in UNION {[d -> FileLists] : d \in SUBSET Langs} :
        /\ \A l \in DOMAIN w \ {"de"} : w[l] = <<P_AX>>
        /\ FilesIn(w, "de") + FilesIn(w, "fr") <= MaxFiles}

\* skip_languages: None, the empty list, and two lists of codes
SkipArgs == {NoneArg, Given(<<>>), Given(<<"en">>), Given(<<"en", "de">>)}

\* args.only: not given, and three lists of codes
OnlyArgs == {NoneArg, Given(<<"fr">>), Given(<<"xx", "de">>), Given(<<"de", "fr">>)}

\* what one call of process_xliff_file does, as its caller sees it, for any
\* dry_run and only_missing: the tuple (t, e) it returns and the number rec
\* of records it appended to self.errors, for a file of at most n units.
\* Line 327 returns the two counters, and a unit counted as an error (line
\* 277) is counted as translated too (line 289); lines 320 and 325 return 0
\* and the count of translated units after a write (a dry run never gets
\* there); line 338 returns (0, 1) after any number of units.
XliffOutcomes(n) ==
    {o \in {[t |-> tc, e |-> ec, rec |-> ec] : tc \in 0..n, ec \in 0..n} :
        o.e <= o.t}
    \cup {o \in {[t |-> 0, e |-> tc, rec |-> ec] : tc \in 1..n, ec \in 0..n} :
            o.rec <= o.e}
    \cup {[t |-> 0, e |-> 1, rec |-> ec] : ec \in 0..n}

\* skip_languages or ['en'] (line 411): None and the empty list are replaced
EffectiveSkip(arg) ==
    IF arg.none \/ arg.codes = <<>> THEN {"en"} ELSE Range(arg.codes)

\* the codes of sorted(self.workspace_dir.glob("*.xcloc"))
SortedFolders(w) == SelectSeq(LangOrder, LAMBDA l : l \in DOMAIN w)

\* d[k] = v of a dict
SetItem(d, k, v) == (k :> v) @@ d

\* rec records of self.errors for the file named name
RECURSIVE ErrorRecords(_, _)
ErrorRecords(name, rec) ==
    IF rec = 0 THEN <<>> ELSE <<[file |-> name]>> \o ErrorRecords(name, rec - 1)

\* the for loops of print_summary: the sum of component i over the values
\* of the dict files
RECURSIVE SumOver(_, _)
SumOver(files, i) ==
    IF DOMAIN files = {} THEN 0
    ELSE LET k == CHOOSE k \in DOMAIN files : TRUE
         IN  files[k][i] + SumOver([x \in DOMAIN files \ {k} |-> files[x]], i)

RECURSIVE SumLangs(_, _)
SumLangs(res, i) ==
    IF DOMAIN res = {} THEN 0
    ELSE LET k == CHOOSE k \in DOMAIN res : TRUE
         IN  SumOver(res[k], i) + SumLangs([x \in DOMAIN res \ {k} |-> res[x]], i)

\* print_summary: total_translations and total_errors
print_summary(res) == [translations |-> SumLangs(res, 1), errors |-> SumLangs(res, 2)]

\* the branch of line 177
OnlyMode == entry = "cli" /\ ~only_arg.none

\* main after its arguments are parsed and the translator is built, or the
\* entry of process_all_languages.  dry_run and only_missing are handed on
\* to process_xliff_file unread; XliffOutcomes covers every value of them.
InitBatch ==
    /\ entry \in {"cli", "api"}
    /\ ws \in Workspaces
    /\ strict \in BOOLEAN
    /\ run = 1
    /\ dry_run = FALSE
    /\ only_missing = FALSE
    /\ IF entry = "cli"
       THEN /\ skip_arg \in {a \in SkipArgs : ~a.none /\ a.codes # <<>>}
            /\ only_arg \in OnlyArgs
            /\ ~only_arg.none => skip_arg = Given(<<"en">>)
            /\ bpc = "main"
       ELSE /\ skip_arg \in SkipArgs
            /\ only_arg = NoneArg
            /\ bpc = "all_start"
    /\ todo = <<>>
    /\ cur = ""
    /\ files_todo = <<>>
    /\ lang_results = EmptyDict
    /\ results = EmptyDict
    /\ exit_code = -1
    /\ summary = NoSummary
    /\ attempted = <<>>
    /\ raised = {}
    /\ GuiIdle
    /\ errors = <<>>
    /\ text = <<>>
    /\ tpc = "idle"
    /\ ret = NoReturn
    /\ calls = <<>>
    /\ disk = <<>>
    /\ before = <<>>
    /\ pc = "idle"
    /\ original_content = <<>>
    /\ has_original = FALSE
    /\ units = <<>>
    /\ idx = 1
    /\ translated_count = 0
    /\ pauses = 0
    /\ error_count = 0
    /\ modified = FALSE
    /\ site = "none"
    /\ result = NoResult
    /\ log = <<>>
    /\ persist_failed = FALSE
    /\ wrote = FALSE
    /\ verified = FALSE

\* what a batch leaves alone in every step
batchFrame == <<guiVars, entry, ws, skip_arg, only_arg, strict, run, dry_run,
                only_missing,
                text, tpc, ret, calls, disk, before, pc, original_content,
                has_original, units, idx, translated_count, pauses, error_count,
                modified, site, result, log, persist_failed, wrote, verified>>

\* cli.main lines 160-168: no .xcloc folder in the workspace
MainNoFolders ==
    /\ bpc = "main"
    /\ DOMAIN ws = {}
    /\ exit_code' = 1
    /\ bpc' = "exit"
    /\ UNCHANGED <<batchFrame, todo, cur, files_todo, lang_results, results,
                   summary, attempted, raised, errors>>

\* cli.main lines 177-180: --only was given
MainOnly ==
    /\ bpc = "main"
    /\ DOMAIN ws # {}
    /\ ~only_arg.none
    /\ results' = EmptyDict
    /\ todo' = only_arg.codes
    /\ bpc' = "only_loop"
    /\ UNCHANGED <<batchFrame, cur, files_todo, lang_results, exit_code,
                   summary, attempted, raised, errors>>

\* cli.main lines 192-198: process_all_languages is called
MainAll ==
    /\ bpc = "main"
    /\ DOMAIN ws # {}
    /\ only_arg.none
    /\ bpc' = "all_start"
    /\ UNCHANGED <<batchFrame, todo, cur, files_todo, lang_results, results,
                   exit_code, summary, attempted, raised, errors>>

\* process_all_languages lines 411-425
AllStart ==
    /\ bpc = "all_start"
    /\ todo' = SortedFolders(ws)
    /\ results' = EmptyDict
    /\ bpc' = "all_loop"
    /\ UNCHANGED <<batchFrame, cur, files_todo, lang_results, exit_code,
                   summary, attempted, raised, errors>>

\* lines 427-432: continue
AllSkip ==
    /\ bpc = "all_loop"
    /\ todo # <<>>
    /\ Head(todo) \in EffectiveSkip(skip_arg)
    /\ todo' = Tail(todo)
    /\ UNCHANGED <<batchFrame, bpc, cur, files_todo, lang_results, results,
                   exit_code, summary, attempted, raised, errors>>

\* lines 434-437: process_language_folder is called
AllCall ==
    /\ bpc = "all_loop"
    /\ todo # <<>>
    /\ Head(todo) \notin EffectiveSkip(skip_arg)
    /\ cur' = Head(todo)
    /\ todo' = Tail(todo)
    /\ bpc' = "folder"
    /\ UNCHANGED <<batchFrame, files_todo, lang_results, results, exit_code,
                   summary, attempted, raised, errors>>

\* cli.main lines 181-183: continue
OnlyUnknown ==
    /\ bpc = "only_loop"
    /\ todo # <<>>
    /\ Head(todo) \notin LANGUAGE_MAP
    /\ todo' = Tail(todo)
    /\ UNCHANGED <<batchFrame, bpc, cur, files_todo, lang_results, results,
                   exit_code, summary, attempted, raised, errors>>

\* cli.main lines 185-189: process_language_folder is called
OnlyCall ==
    /\ bpc = "only_loop"
    /\ todo # <<>>
    /\ Head(todo) \in LANGUAGE_MAP
    /\ cur' = Head(todo)
    /\ todo' = Tail(todo)
    /\ bpc' = "folder"
    /\ UNCHANGED <<batchFrame, files_todo, lang_results, results, exit_code,
                   summary, attempted, raised, errors>>

\* process_language_folder has returned r to its caller: lines 437-439 of
\* process_all_languages, lines 190-191 of cli.main
FolderReturned(r) ==
    /\ IF OnlyMode
       THEN /\ results' = IF DOMAIN r # {} THEN SetItem(results, cur, r) ELSE results
            /\ bpc' = "only_loop"
       ELSE /\ results' = SetItem(results, cur, r)
            /\ bpc' = "all_loop"
    /\ cur' = ""

\* a variant in which an earlier error record makes the folder return {}
PassesFolderTests_fatal(code) ==
    /\ code \in DOMAIN ws
    /\ get_google_translate_code(code) # "None"
    /\ ws[code] # <<>>
    /\ errors = <<>>

\* process_language_folder passes the three tests of lines 359, 365 and
\* 377: the folder exists, its code has a mapping, it holds a file
PassesFolderTests(code) ==
    /\ code \in DOMAIN ws
    /\ get_google_translate_code(code) # "None"
    /\ ws[code] # <<>>

\* process_language_folder lines 359-361, 364-367 and 377-379: return {}
FolderReturnsEmpty ==
    /\ bpc = "folder"
    /\ ~PassesFolderTests(cur)
    /\ FolderReturned(EmptyDict)
    /\ UNCHANGED <<batchFrame, todo, files_todo, lang_results, exit_code,
                   summary, attempted, raised, errors>>

\* lines 373-375: the files are listed
FolderList ==
    /\ bpc = "folder"
    /\ PassesFolderTests(cur)
    /\ files_todo' = ws[cur]
    /\ lang_results' = EmptyDict
    /\ bpc' = "file_loop"
    /\ UNCHANGED <<batchFrame, todo, cur, results, exit_code, summary,
                   attempted, raised, errors>>

\* lang_folder.exists() or lang_folder.glob raises: the handler of lines
\* 441-443 of process_all_languages goes on with the next folder, the one of
\* cli.main lines 220-225 returns 1
FolderRaises ==
    /\ bpc = "folder"
    /\ cur \in DOMAIN ws
    /\ IF OnlyMode
       THEN /\ exit_code' = 1
            /\ bpc' = "exit"
       ELSE /\ bpc' = "all_loop"
            /\ UNCHANGED exit_code
    /\ cur' = ""
    /\ raised' = raised \cup {cur}
    /\ UNCHANGED <<batchFrame, todo, files_todo, lang_results, results,
                   summary, attempted, errors>>

\* lines 381-386: process_xliff_file is called for the next file and its
\* result is stored under the name of the file
FileProcess ==
    /\ bpc = "file_loop"
    /\ files_todo # <<>>
    /\ \E o \in XliffOutcomes(MaxCount) :
         LET f == Head(files_todo)
         IN  /\ lang_results' = SetItem(lang_results, f.name, <<o.t, o.e>>)
             /\ errors' = errors \o ErrorRecords(f.name, o.rec)
             /\ attempted' = Append(attempted,
                   [lang |-> cur, path |-> f, t |-> o.t, e |-> o.e, rec |-> o.rec])
    /\ files_todo' = Tail(files_todo)
    /\ UNCHANGED <<batchFrame, bpc, todo, cur, results, exit_code, summary,
                   raised>>

\* line 392: return results
FolderDone ==
    /\ bpc = "file_loop"
    /\ files_todo = <<>>
    /\ FolderReturned(lang_results)
    /\ lang_results' = EmptyDict
    /\ UNCHANGED <<batchFrame, todo, files_todo, exit_code, summary,
                   attempted, raised, errors>>

\* line 445: return results, to cli.main or to the caller
AllDone ==
    /\ bpc = "all_loop"
    /\ todo = <<>>
    /\ bpc' = IF entry = "cli" THEN "summary" ELSE "done"
    /\ UNCHANGED <<batchFrame, todo, cur, files_todo, lang_results, results,
                   exit_code, summary, attempted, raised, errors>>

\* cli.main: the loop of line 180 is over
OnlyDone ==
    /\ bpc = "only_loop"
    /\ todo = <<>>
    /\ bpc' = "summary"
    /\ UNCHANGED <<batchFrame, todo, cur, files_todo, lang_results, results,
                   exit_code, summary, attempted, raised, errors>>

\* a variant that returns 1 for any error record, flag or no flag
ExitStatus_anyerror(errs, fail) == IF errs # <<>> THEN 1 ELSE 0

\* cli.main lines 212-215: the value returned once the summary is printed
ExitStatus(errs, fail) == IF errs # <<>> /\ fail THEN 1 ELSE 0

\* cli.main lines 200-215
MainSummary ==
    /\ bpc = "summary"
    /\ summary' = print_summary(results)
    /\ exit_code' = ExitStatus(errors, strict)
    /\ bpc' = "exit"
    /\ UNCHANGED <<batchFrame, todo, cur, files_todo, lang_results, results,
                   attempted, raised, errors>>

\* cli.main lines 217-219: the user interrupts the run
Interrupt ==
    /\ entry = "cli"
    /\ bpc \in {"all_start", "all_loop", "only_loop", "folder", "file_loop", "summary"}
    /\ exit_code' = 130
    /\ bpc' = "exit"
    /\ UNCHANGED <<batchFrame, todo, cur, files_todo, lang_results, results,
                   summary, attempted, raised, errors>>

NextBatch ==
    \/ MainNoFolders
    \/ MainOnly
    \/ MainAll
    \/ AllStart
    \/ AllSkip
    \/ AllCall
    \/ OnlyUnknown
    \/ OnlyCall
    \/ FolderReturnsEmpty
    \/ FolderList
    \/ FolderRaises
    \/ FileProcess
    \/ FolderDone
    \/ AllDone
    \/ OnlyDone
    \/ MainSummary
    \/ Interrupt

SpecBatch == InitBatch /\ [][NextBatch]_vars

\* ------------------------- SpecGui: the front end of localization_app.py
\* the threads start_translation may start in one run of the model
MaxWorkers == 2

\* the thread started for the languages langs: it is at the head of the loop
\* of run_translation (line 532).  late and stopped are history: late,
\* whether the flag is_translating was down when the thread started the
\* language or the file it is at; stopped, whether Stop was pressed since
\* the thread was started
NewWorker(langs, dflt) ==
    [pc |-> "lang_loop", langs |-> langs, dflt |-> dflt, lang |-> "",
     files |-> <<>>, late |-> FALSE, stopped |-> FALSE]

\* the state of every file-level variable when no file is being processed
FileLevelIdle ==
    /\ strict = FALSE
    /\ run = 1
    /\ dry_run = FALSE
    /\ only_missing = FALSE
    /\ errors = <<>>
    /\ text = <<>>
    /\ tpc = "idle"
    /\ ret = NoReturn
    /\ calls = <<>>
    /\ disk = <<>>
    /\ before = <<>>
    /\ pc = "idle"
    /\ original_content = <<>>
    /\ has_original = FALSE
    /\ units = <<>>
    /\ idx = 1
    /\ translated_count = 0
    /\ pauses = 0
    /\ error_count = 0
    /\ modified = FALSE
    /\ site = "none"
    /\ result = NoResult
    /\ log = <<>>
    /\ persist_failed = FALSE
    /\ wrote = FALSE
    /\ verified = FALSE

\* LocalizationApp.__init__ over a directory the user may browse to
InitGui ==
    /\ entry = "gui"
    /\ ws \in Workspaces
    /\ skip_arg = NoneArg
    /\ only_arg = NoneArg
    /\ bpc = "idle"
    /\ todo = <<>>
    /\ cur = ""
    /\ files_todo = <<>>
    /\ lang_results = EmptyDict
    /\ results = EmptyDict
    /\ exit_code = -1
    /\ summary = NoSummary
    /\ attempted = <<>>
    /\ raised = {}
    /\ GuiIdle
    /\ FileLevelIdle

\* what the front end leaves alone in every step
guiFrame == <<fileLevelVars, batchVars>>

\* detect_languages lines 464-469: the codes of the folders that have an
\* entry in LANGUAGE_MAP, in the order of their names
Detected == SelectSeq(SortedFolders(ws), LAMBDA l : l \in LANGUAGE_MAP)

\* lines 479-483: the default language after a detection
DefaultAfterDetect ==
    IF "en" \in Range(Detected) THEN "en"
    ELSE IF Detected # <<>> THEN Detected[1]
    ELSE default_lang

\* detect_languages with a workspace chosen (lines 455-492): with no .xcloc
\* folder it returns at line 461, otherwise it fills the list, selects every
\* language but the default one and sets the Start button to NORMAL
detect_languages ==
    IF DOMAIN ws = {}
    THEN UNCHANGED <<detected_languages, default_lang, selection, translate_btn>>
    ELSE /\ detected_languages' = Detected
         /\ default_lang' = DefaultAfterDetect
         /\ selection' = Range(Detected) \ {DefaultAfterDetect}
         /\ translate_btn' = "normal"

\* select_workspace (lines 439-445) when the user chooses the folder
Browse ==
    /\ workspace_dir' = "set"
    /\ detect_languages
    /\ UNCHANGED <<guiFrame, is_translating, stop_btn, workers, pending>>

\* the Refresh button (line 407): detect_languages, which returns at line
\* 451 when no workspace was chosen
Refresh ==
    /\ workspace_dir = "set"
    /\ detect_languages
    /\ UNCHANGED <<guiFrame, workspace_dir, is_translating, stop_btn, workers,
                   pending>>

\* line 501: the detected languages that are selected
selected_langs == SelectSeq(detected_languages, LAMBDA l : l \in selection)

\* start_translation (lines 494-521) with a selection and a confirmed
\* dialog; the button is pressed only while it is NORMAL
Start ==
    /\ translate_btn = "normal"
    /\ selected_langs # <<>>
    /\ Len(workers) < MaxWorkers
    /\ is_translating' = TRUE
    /\ translate_btn' = "disabled"
    /\ stop_btn' = "normal"
    /\ workers' = Append(workers, NewWorker(selected_langs, default_lang))
    /\ UNCHANGED <<guiFrame, workspace_dir, detected_languages, selection,
                   default_lang, pending>>

\* stop_translation (lines 559-562); the button is pressed only while it is
\* NORMAL
Stop ==
    /\ stop_btn = "normal"
    /\ is_translating' = FALSE
    /\ workers' = [w \in 1..Len(workers) |->
                      IF workers[w].pc = "dead" THEN workers[w]
                      ELSE [workers[w] EXCEPT !.stopped = TRUE]]
    /\ UNCHANGED <<guiFrame, workspace_dir, detected_languages, selection,
                   default_lang, translate_btn, stop_btn, pending>>

\* translation_finished (lines 564-570), called by the main loop for a
\* callback queued at line 557
translation_finished ==
    /\ pending > 0
    /\ pending' = pending - 1
    /\ is_translating' = FALSE
    /\ translate_btn' = "normal"
    /\ stop_btn' = "disabled"
    /\ UNCHANGED <<guiFrame, workspace_dir, detected_languages, selection,
                   default_lang, workers>>

\* what a step of a thread leaves alone
workerFrame == <<guiFrame, workspace_dir, detected_languages, selection,
                 default_lang, is_translating, translate_btn, stop_btn>>

\* run_translation lines 532-535 and 543-545: the loop is over or the flag
\* is down, the thread goes on to its finally clause
WorkerBreak ==
    \E w \in 1..Len(workers) :
        /\ workers[w].pc = "lang_loop"
        /\ workers[w].langs = <<>> \/ ~is_translating
        /\ workers' = [workers EXCEPT ![w].pc = "finish"]
        /\ UNCHANGED <<workerFrame, pending>>

\* lines 532-539: the flag is up, process_language is called for the next
\* language; late records that the flag was down at that moment
WorkerNextLanguage ==
    \E w \in 1..Len(workers) :
        /\ workers[w].pc = "lang_loop"
        /\ workers[w].langs # <<>>
        /\ is_translating
        /\ workers' = [workers EXCEPT ![w].pc = "language",
                                      ![w].lang = Head(workers[w].langs),
                                      ![w].langs = Tail(workers[w].langs),
                                      ![w].late = ~is_translating]
        /\ UNCHANGED <<workerFrame, pending>>

\* process_language goes on to its loop: the folder exists, has a mapping,
\* is not the default language and holds a file (lines 271-293)
HasWork(l, dflt) ==
    /\ l \in DOMAIN ws
    /\ l \in LANGUAGE_MAP
    /\ l # dflt
    /\ ws[l] # <<>>

\* process_language lines 271-293: return 0
WorkerLanguageEmpty ==
    \E w \in 1..Len(workers) :
        /\ workers[w].pc = "language"
        /\ ~HasWork(workers[w].lang, workers[w].dflt)
        /\ workers' = [workers EXCEPT ![w].pc = "lang_loop", ![w].lang = ""]
        /\ UNCHANGED <<workerFrame, pending>>

\* line 289: the files are listed
WorkerList ==
    \E w \in 1..Len(workers) :
        /\ workers[w].pc = "language"
        /\ HasWork(workers[w].lang, workers[w].dflt)
        /\ workers' = [workers EXCEPT ![w].pc = "file_loop",
                                      ![w].files = ws[workers[w].lang]]
        /\ UNCHANGED <<workerFrame, pending>>

\* lines 296-298: process_xliff_file is called for the next file; late
\* records that the flag was down at that moment
WorkerFileStart ==
    \E w \in 1..Len(workers) :
        /\ workers[w].pc = "file_loop"
        /\ workers[w].files # <<>>
        /\ workers' = [workers EXCEPT ![w].pc = "in_file",
                                      ![w].late = ~is_translating]
        /\ UNCHANGED <<workerFrame, pending>>

\* lines 298-300: process_xliff_file has returned
WorkerFileEnd ==
    \E w \in 1..Len(workers) :
        /\ workers[w].pc = "in_file"
        /\ workers' = [workers EXCEPT ![w].pc = "file_loop",
                                      ![w].files = Tail(workers[w].files),
                                      ![w].late = FALSE]
        /\ UNCHANGED <<workerFrame, pending>>

\* line 302 and run_translation lines 540-541: the language is done
WorkerLanguageDone ==
    \E w \in 1..Len(workers) :
        /\ workers[w].pc = "file_loop"
        /\ workers[w].files = <<>>
        /\ workers' = [workers EXCEPT ![w].pc = "lang_loop", ![w].lang = ""]
        /\ UNCHANGED <<workerFrame, pending>>

\* lines 556-557: the finally clause queues translation_finished and the
\* thread ends
WorkerFinish ==
    \E w \in 1..Len(workers) :
        /\ workers[w].pc = "finish"
        /\ workers' = [workers EXCEPT ![w].pc = "dead"]
        /\ pending' = pending + 1
        /\ UNCHANGED workerFrame

NextGui ==
    \/ Browse
    \/ Refresh
    \/ Start
    \/ Stop
    \/ translation_finished
    \/ WorkerBreak
    \/ WorkerNextLanguage
    \/ WorkerLanguageEmpty
    \/ WorkerList
    \/ WorkerFileStart
    \/ WorkerFileEnd
    \/ WorkerLanguageDone
    \/ WorkerFinish

SpecGui == InitGui /\ [][NextGui]_vars

\* a thread that can take a step takes one, every call of the service and
\* of process_xliff_file returns, and the main loop of Tk runs the callbacks
\* queued with root.after
FairGui ==
    /\ WF_vars(WorkerBreak)
    /\ WF_vars(WorkerNextLanguage)
    /\ WF_vars(WorkerLanguageEmpty)
    /\ WF_vars(WorkerList)
    /\ WF_vars(WorkerFileStart)
    /\ WF_vars(WorkerFileEnd)
    /\ WF_vars(WorkerLanguageDone)
    /\ WF_vars(WorkerFinish)
    /\ WF_vars(translation_finished)

SpecGuiFair == InitGui /\ [][NextGui]_vars /\ FairGui

\* ============================================================ properties
\* number of positions of s holding x
Occurrences(s, x) == Cardinality({i \in 1..Len(s) : s[i] = x})

\* the two sequences hold every element the same number of times
SameMultiset(s, t) ==
    \A x \in Range(s) \cup Range(t) : Occurrences(s, x) = Occurrences(t, x)

\* the units of the file as it was when the call began
UnitsBefore == ParseUnits(before)

\* the units among us the loop hands to translate_text
NeedingAmong(us) ==
    {i \in 1..Len(us) : ~SourceBlank(us[i]) /\ NeedsTranslation(us[i], only_missing)}

\* the units of that file the loop hands to translate_text
NeedingUnits == NeedingAmong(UnitsBefore)

\* the loop of process_xliff_file has run to its end
LoopFinished ==
    \/ pc \in {"write_open", "write_data", "verify"}
    \/ pc = "loop" /\ idx > Len(units)
    \/ pc \in {"restore_open", "restore_data", "except", "done"} /\ units # <<>>

\* C1: whenever the write or its verification failed, the file holds, once
\* process_xliff_file has returned, the very bytes it held before the call.
C1_RollbackByteExact ==
    (pc = "done" /\ persist_failed) => disk = before

\* C2: at every moment of the call a reader of the file finds either the
\* bytes it held before the call or the new document, complete and verified.
C2_AllOrNothing ==
    \/ disk = before
    \/ /\ pc = "done"
       /\ ~persist_failed
       /\ disk = Serialize(units)

\* C3: a dry run leaves the bytes of the file and the text and state of
\* every unit as they were, whatever fails, and returns as translatedCount
\* the number of units that need translation when the file was read and
\* parsed.
C3_DryRunPersistsNothing ==
    (dry_run /\ pc = "done") =>
        /\ disk = before
        /\ \A i \in 1..Len(units) :
             units[i].tgt = UnitsBefore[i].tgt /\ units[i].st = UnitsBefore[i].st
        /\ (has_original /\ WellFormed(before)) =>
             result.translated = Cardinality(NeedingUnits)

\* C4: under the strict policy, a text translate_text returns without an
\* error holds every placeholder as often as the source text does.
C4_AcceptedHasSameMultiset ==
    (tpc = "done" /\ strict /\ ret.err.kind = "none") =>
        SameMultiset(FindAll(text), FindAll(ret.out))

\* C5: the validator accepts a pair exactly when the two texts hold the same
\* number of placeholders and the same set of distinct placeholders,
\* whatever their order.
C5_ValidateIffCountAndSet ==
    (tpc = "done" /\ ret.validated) =>
        (ret.valid <=>
            /\ Len(FindAll(ret.translated)) = Len(FindAll(text))
            /\ Range(FindAll(ret.translated)) = Range(FindAll(text)))

\* a pair the validator accepted whose placeholders come in another order
C5_Witness ==
    /\ tpc = "done"
    /\ ret.validated
    /\ ret.valid
    /\ Len(FindAll(text)) >= 2
    /\ FindAll(ret.translated) # FindAll(text)

\* C6: restoring what extract_placeholders returned gives the text back.
C6_RoundTrip ==
    restore_placeholders(extract_placeholders(text).text,
                         extract_placeholders(text).placeholders) = text

\* the placeholders of the source text that the validated translation lacks
MissingFromTranslation == Range(FindAll(text)) \ Range(FindAll(ret.translated))

\* C7: under the strict policy, when the translation lacks a placeholder of
\* the source, translate_text returns the source text and a validation
\* error whose message names that placeholder.
C7_MissingPlaceholderNamed ==
    (tpc = "done" /\ strict /\ ret.validated /\ MissingFromTranslation # {}) =>
        /\ ret.out = text
        /\ ret.err.kind = "validation"
        /\ MissingFromTranslation \subseteq ret.err.names

\* the log entries whose translation failed the placeholder validation
FailedValidation == {j \in 1..Len(log) : log[j].r.validated /\ ~log[j].r.valid}

\* the log entries translate_text returned an error for
WithError == {j \in 1..Len(log) : log[j].r.err.kind # "none"}

\* C8: a translation that fails validation is, under the relaxed policy,
\* returned with no error, written into the unit, and neither counted nor
\* recorded as an error; under the strict policy the source text is returned
\* with a validation error.
C8_RelaxedAcceptsStrictRejects ==
    /\ \A j \in FailedValidation :
         IF strict
         THEN /\ log[j].r.out = log[j].src
              /\ log[j].r.err.kind = "validation"
         ELSE /\ log[j].r.out = log[j].r.translated
              /\ log[j].r.err.kind = "none"
              /\ ~dry_run => /\ units[log[j].unit].tgt = log[j].r.translated
                             /\ units[log[j].unit].st = "translated"
    /\ pc # "start" =>
         /\ error_count = Cardinality(WithError)
         /\ Len(errors) = Cardinality(WithError)

\* a relaxed run that wrote a translation that failed validation
C8_Witness ==
    /\ ~strict
    /\ ~dry_run
    /\ pc = "done"
    /\ FailedValidation # {}
    /\ error_count = 0

\* the log entries whose service call raised
ServiceFailed == {j \in 1..Len(log) : log[j].r.calls # <<>> /\ ~log[j].svc.ok}

\* C9: when the service call of a unit fails, translate_text returns the
\* source text and an error, the unit holds its source text, one error is
\* recorded for it, and every unit that needs translation is still handed to
\* translate_text.
C9_ServiceFailureScoped ==
    /\ \A j \in ServiceFailed :
         /\ log[j].r.out = log[j].src
         /\ log[j].r.err.kind = "service"
         /\ ~dry_run => units[log[j].unit].tgt = log[j].src
         /\ \E k \in 1..Len(errors) : errors[k].error.kind = "service"
    /\ pc # "start" => Len(errors) = Cardinality(WithError)
    /\ LoopDone => {log[j].unit : j \in 1..Len(log)} = NeedingUnits

\* a call whose first unit failed in the service and whose later unit was
\* translated
C9_Witness ==
    /\ pc = "done"
    /\ \E j \in ServiceFailed : \E k \in 1..Len(log) :
         /\ k > j
         /\ log[k].r.calls # <<>>
         /\ log[k].svc.ok

\* C10: translate_text calls the service for no text that the skip policy
\* skips or that is blank once its placeholders are taken out, and returns
\* such a text as it is with no error; for every other text it calls the
\* service once, with the marker-substituted text.
C10_ServiceCalledOnlyWhenNeeded ==
    LET skip == \/ should_skip_translation(text)
                \/ Strip(extract_placeholders(text).text) = <<>>
    IN  /\ (tpc = "done" /\ skip) =>
             /\ ret.out = text
             /\ ret.err = NoError
             /\ calls = <<>>
        /\ (tpc \in {"called", "done"} /\ ~skip) =>
             calls = <<extract_placeholders(text).text>>
        /\ tpc = "start" => calls = <<>>

\* a call the service was made for, on a text holding a placeholder
C10_Witness ==
    /\ tpc = "done"
    /\ calls # <<>>
    /\ FindAll(text) # <<>>
    /\ calls[1] # text

\* the units handed to translate_text so far
LoggedUnits == {log[j].unit : j \in 1..Len(log)}

\* C11 as stated: with only_missing, every unit whose target is its source
\* verbatim is handed to translate_text, and every unit whose non-empty
\* target differs from its source is left as it was and not counted, whatever
\* its state.
C11_OnlyMissingVerbatim ==
    (only_missing /\ LoopFinished) =>
        \A i \in 1..Len(UnitsBefore) :
            LET u == UnitsBefore[i]
            IN  /\ (u.has /\ u.tgt = u.src) => i \in LoggedUnits
                /\ (u.has /\ u.tgt # <<>> /\ u.tgt # u.src) =>
                       (i \notin LoggedUnits /\ units[i] = u)

\* of the units us the file held, the ones whose target is the source
\* verbatim were handed to translate_text, and the ones whose target is
\* another text, not flagged for review, were passed over and left alone
OnlyMissingFollowed(us) ==
    \A i \in 1..Len(us) :
        /\ (~SourceBlank(us[i]) /\ us[i].has /\ us[i].tgt = us[i].src) =>
               i \in LoggedUnits
        /\ (/\ us[i].has
            /\ Strip(us[i].tgt) # <<>>
            /\ Strip(us[i].tgt) # Strip(us[i].src)
            /\ us[i].st # "needs-review-l10n") =>
               (i \notin LoggedUnits /\ units[i] = us[i])

\* C11 amended: with only_missing, every unit with a non-blank source whose
\* target is its source verbatim is handed to translate_text, and every unit
\* whose target is not blank, differs from its source once both are stripped
\* of surrounding white space, and is not flagged needs-review-l10n is left
\* as it was and not counted.
C11_OnlyMissingStripped ==
    (only_missing /\ LoopDone) =>
        /\ translated_count = Cardinality(LoggedUnits)
        /\ OnlyMissingFollowed(UnitsBefore)

\* an only_missing call over a file holding a unit whose target is its
\* source, which was translated, and a unit with another target, which was not
C11_Witness ==
    /\ only_missing
    /\ pc = "done"
    /\ \E i, k \in 1..Len(UnitsBefore) :
         /\ UnitsBefore[i].has /\ UnitsBefore[i].tgt = UnitsBefore[i].src
         /\ i \in LoggedUnits
         /\ UnitsBefore[k].has /\ Strip(UnitsBefore[k].tgt) # Strip(UnitsBefore[k].src)
         /\ UnitsBefore[k].st = "translated"
         /\ k \notin LoggedUnits
         /\ units[k] = UnitsBefore[k]

\* the call read and parsed the file it was given
ReadAndParsed == has_original /\ WellFormed(before)

\* the result was returned by line 327 after a write: reported as success
ReportedWritten == pc = "done" /\ wrote /\ ~persist_failed /\ site = "none"

\* C12: the file is written only in a call that is not a dry run and mutated
\* a unit, and is written in every such call whose write can begin; a call
\* that finds no unit to translate, or a dry run that reads and parses the
\* file, writes nothing; and a write reported as success was re-read and
\* found to hold the declaration.
C12_WrittenIffMutated ==
    /\ wrote => (~dry_run /\ modified)
    /\ (pc = "done" /\ ~dry_run /\ modified /\ ~persist_failed) => wrote
    /\ (ReadAndParsed /\ (dry_run \/ NeedingUnits = {})) => ~wrote
    /\ ReportedWritten => (verified /\ HasDeclaration(ReadText(disk)))

\* a restoring write was begun, or the write or its verification failed
RolledBack == site # "none" \/ persist_failed

\* C13: a call that rolled the file back returns 0 translated units and at
\* least one error.
C13_RollbackReported ==
    (pc = "done" /\ RolledBack) =>
        (result.translated = 0 /\ result.errors >= 1)

\* a call that translated a unit, wrote the file, could not re-read it, put
\* the backup back and returned
C13_Witness ==
    /\ pc = "done"
    /\ site = "B"
    /\ translated_count >= 1
    /\ wrote
    /\ result = Returned(0, translated_count)

\* ------------------------------------------------------ batch properties
\* process_all_languages has returned
AllReturned == only_arg.none /\ bpc \in {"done", "summary"}

\* the number of calls of process_xliff_file for the file f of the folder l
Attempts(l, f) ==
    Cardinality({i \in 1..Len(attempted) :
                    attempted[i].lang = l /\ attempted[i].path = f})

\* C14 as stated: once process_all_languages has returned, every file of
\* every language folder that is not in the skip list was attempted and
\* the folder has an entry in the results.
C14_EveryFolderAttempted ==
    AllReturned =>
        \A l \in DOMAIN ws \ EffectiveSkip(skip_arg) :
            /\ l \in DOMAIN results
            /\ \A f \in Range(ws[l]) : Attempts(l, f) >= 1

\* C14 amended: whatever the calls of process_xliff_file returned and
\* recorded, once process_all_languages has returned, every file of every
\* folder that is not in the skip list and whose code has a catalog entry
\* was attempted exactly once, and every folder that is not in the skip list
\* and whose listing did not raise has an entry in the results.
C14_NoErrorFatal ==
    AllReturned =>
        \A l \in DOMAIN ws \ (EffectiveSkip(skip_arg) \cup raised) :
            /\ l \in DOMAIN results
            /\ get_google_translate_code(l) # "None" =>
                   \A f \in Range(ws[l]) : Attempts(l, f) = 1

\* the first file of de failed as a whole and recorded an error, the file
\* after it was attempted, and the folder xx, which comes later, has its
\* result
C14_Witness ==
    /\ AllReturned
    /\ Len(attempted) = 2
    /\ attempted[1].t = 0 /\ attempted[1].e = 1 /\ attempted[1].rec = 1
    /\ attempted[1].lang = "de" /\ attempted[2].lang = "de"
    /\ DOMAIN results = {"de", "xx"}

\* the folders whose files main has to hand to process_xliff_file: with
\* --only the codes given that have a catalog entry and a folder, otherwise
\* the folders process_all_languages does not skip
LangsToProcess ==
    IF only_arg.none
    THEN {l \in DOMAIN ws \ (EffectiveSkip(skip_arg) \cup raised) :
             get_google_translate_code(l) # "None"}
    ELSE Range(only_arg.codes) \cap DOMAIN ws \cap LANGUAGE_MAP

\* main has returned after print_summary
ReturnedAfterSummary == entry = "cli" /\ bpc = "exit" /\ summary # NoSummary

\* C15: main returns from the lines after print_summary only once every
\* file of every language to process was attempted, and returns 1 there
\* exactly when --fail-on-placeholder-mismatch is set and self.errors is
\* not empty, 0 otherwise; when main returns before print_summary it was
\* interrupted, found no folder, or a folder could not be listed, so no
\* error record of a unit or a file ended the run.
C15_ExitAfterBatch ==
    /\ ReturnedAfterSummary =>
          /\ exit_code = (IF strict /\ errors # <<>> THEN 1 ELSE 0)
          /\ todo = <<>> /\ files_todo = <<>>
          /\ \A l \in LangsToProcess :
                 \A f \in Range(ws[l]) : Attempts(l, f) >= 1
    /\ (entry = "cli" /\ bpc = "exit" /\ summary = NoSummary) =>
          \/ exit_code = 130
          \/ exit_code = 1 /\ (DOMAIN ws = {} \/ raised # {})

\* the first file recorded an error, a file of the next language was
\* attempted after it, and main returned 1 after the summary
C15_Witness ==
    /\ ReturnedAfterSummary
    /\ exit_code = 1
    /\ Len(attempted) = 2
    /\ attempted[1].rec = 1 /\ attempted[1].lang = "de"
    /\ attempted[2].rec = 0 /\ attempted[2].lang = "fr"

\* the sum of the field fld over the records of att
RECURSIVE SumField(_, _)
SumField(att, fld) ==
    IF att = <<>> THEN 0 ELSE Head(att)[fld] + SumField(Tail(att), fld)

\* C16: no file of a folder whose code has no catalog entry is handed to
\* process_xliff_file (none is read, written or sent to the service), every
\* error record was appended by a call for a file of another folder, the
\* result stored for such a folder is empty, so that it adds nothing to
\* the totals, and process_all_languages stores that empty result.
C16_UnsupportedSkipped ==
    /\ \A i \in 1..Len(attempted) : attempted[i].lang \in LANGUAGE_MAP
    /\ Len(errors) = SumField(attempted, "rec")
    /\ \A l \in DOMAIN results \ LANGUAGE_MAP :
          /\ results[l] = EmptyDict
          /\ SumOver(results[l], 1) = 0 /\ SumOver(results[l], 2) = 0
    /\ (bpc = "folder" /\ cur \notin LANGUAGE_MAP) => lang_results = EmptyDict
    /\ AllReturned =>
          \A l \in DOMAIN ws \ (LANGUAGE_MAP \cup EffectiveSkip(skip_arg) \cup raised) :
              l \in DOMAIN results

\* the folder xx holds a file, process_all_languages went through it after
\* a file of de had recorded an error, and returned
C16_Witness ==
    /\ AllReturned
    /\ "xx" \in DOMAIN ws /\ ws["xx"] # <<>>
    /\ "xx" \in DOMAIN results
    /\ errors # <<>>

\* the calls of process_xliff_file for the files of the folder l
AttemptedIn(l) == SelectSeq(attempted, LAMBDA a : a.lang = l)

\* C20: the result of a language holds one entry for every file that was
\* processed, so the totals print_summary computes are the sums of the
\* counts process_xliff_file returned over all processed files.
C20_TotalsAreSums ==
    /\ \A l \in DOMAIN results :
          /\ Cardinality(DOMAIN results[l]) = Len(AttemptedIn(l))
          /\ SumOver(results[l], 1) = SumField(AttemptedIn(l), "t")
          /\ SumOver(results[l], 2) = SumField(AttemptedIn(l), "e")
    /\ ReturnedAfterSummary =>
          /\ summary.translations = SumField(attempted, "t")
          /\ summary.errors = SumField(attempted, "e")

\* C19: a unit abbreviation that occurs in the source text occurs in no
\* text the translation service is called with.
C19_UnitsNotSent ==
    \A i \in 1..Len(calls) :
        \A u \in UNITS : FindFrom(text, u, 1) # 0 => FindFrom(calls[i], u, 1) = 0

\* ---------------------------------------------------- front-end properties
\* the threads that have not ended
Running == {w \in 1..Len(workers) : workers[w].pc # "dead"}

\* the file the thread w is inside process_xliff_file for
FileOf(w) == [lang |-> workers[w].lang, path |-> Head(workers[w].files)]

\* C17: at most one worker thread is running at any time, and no two
\* threads are inside process_xliff_file for the same file.
C17_OneWorker ==
    /\ Cardinality(Running) <= 1
    /\ \A v, w \in Running :
          (/\ workers[v].pc = "in_file"
           /\ workers[w].pc = "in_file"
           /\ FileOf(v) = FileOf(w)) => v = w

\* C18: a worker starts a language or a file only while the cancellation
\* flag is up, so that after Stop it starts no further file and no further
\* language.
C18_StopHonoured ==
    \A w \in 1..Len(workers) :
        workers[w].pc \in {"language", "in_file"} => ~workers[w].late

\* ------------------------------------------------ more text-level properties
\* the number of places of s where old begins
CountOf(s, old) == Cardinality({p \in 1..Len(s) : OccursAt(s, old, p)})

\* the answer a holds every marker of placeholders exactly once and no text
\* PLACEHOLDER_PATTERN matches
KeepsEveryMarker(a, placeholders) ==
    /\ \A i \in 1..Len(placeholders) : CountOf(a, placeholders[i][1]) = 1
    /\ FindAll(a) = <<>>

\* the call of translate_text was answered by the service
Answered == tpc = "done" /\ Len(log) = 1 /\ log[1].svc.ok

\* C21: when the answer of the service holds every marker of the source
\* exactly once and no placeholder of its own, translate_text returns the
\* answer with its markers restored and no error, strict or not.
C21_ValidMatchReturned ==
    (Answered /\ KeepsEveryMarker(log[1].svc.txt,
                                  extract_placeholders(text).placeholders)) =>
        /\ ret.err = NoError
        /\ ret.out = Restored(log[1].svc.txt, extract_placeholders(text).placeholders)

\* every character of s is white space
AllBlank(s) == \A i \in 1..Len(s) : s[i] \in Whitespace

\* s is the text t with nothing but white space before and after it
TrimsTo(s, t) ==
    \E i \in 1..Len(s) :
        /\ OccursAt(s, t, i)
        /\ \A k \in 1..Len(s) : (k < i \/ k >= i + Len(t)) => s[k] \in Whitespace

\* rest, a text without its placeholders, is blank or one punctuation token
\* once trimmed
NothingLeft(rest) ==
    \/ AllBlank(rest)
    \/ \E p \in Punctuation : TrimsTo(rest, p)

\* the three cases in which a text is not to be translated
NothingToTranslate(s) ==
    \/ AllBlank(s)
    \/ \E u \in UNITS : TrimsTo(s, u)
    \/ NothingLeft(PatternSub(s))

InDocumentOrder ==
    \A j, k \in 1..Len(log) : j < k => log[j].unit < log[k].unit

\* the need-to-translate list read to the letter
ListedNeed(u, om) ==
    \/ ~u.has
    \/ u.tgt = <<>>
    \/ u.st = "needs-review-l10n"
    \/ (om /\ u.tgt = u.src)

\* the same list with white space trimmed before a text is tested
TrimmedNeed(u, om) ==
    \/ ~u.has
    \/ AllBlank(u.tgt)
    \/ u.st = "needs-review-l10n"
    \/ (om /\ Strip(u.tgt) = Strip(u.src))

\* with only_missing unset, the units of us whose target is not blank and
\* not flagged are neither handed to translate_text nor changed
SettledUntouched(us) ==
    \A i \in 1..Len(us) :
        (us[i].has /\ ~AllBlank(us[i].tgt) /\ us[i].st # "needs-review-l10n") =>
            (i \notin LoggedUnits /\ units[i] = us[i])

PassedAsListed(us) ==
    LoggedUnits = {i \in 1..Len(us) : ListedNeed(us[i], only_missing)}

PassedAsTrimmed(us) ==
    LoggedUnits = {i \in 1..Len(us) :
                      ~AllBlank(us[i].src) /\ TrimmedNeed(us[i], only_missing)}

\* C23 as stated: the units are taken in document order; a unit is handed
\* to translate_text exactly when its target is absent, empty, flagged
\* needs-review, or (with only_missing) identical to its source; without
\* only_missing a unit with a non-empty unflagged target is left alone.
C23_PassedIffListed ==
    /\ InDocumentOrder
    /\ LoopFinished => PassedAsListed(UnitsBefore)
    /\ (LoopFinished /\ ~only_missing) => SettledUntouched(UnitsBefore)

\* C23 amended: the same for the units whose source is not blank, an
\* empty target being one that is empty or white space, and identical
\* meaning equal once both texts are trimmed.
C23_PassedIffTrimmed ==
    /\ InDocumentOrder
    /\ LoopFinished => PassedAsTrimmed(UnitsBefore)
    /\ (LoopFinished /\ ~only_missing) => SettledUntouched(UnitsBefore)

\* a call without only_missing over two units, the first with a settled
\* target that was left alone, the second flagged and handed over
C23_Witness ==
    /\ pc = "done"
    /\ ~only_missing
    /\ Len(UnitsBefore) = 2
    /\ UnitsBefore[1].has /\ UnitsBefore[1].st = "translated"
    /\ UnitsBefore[2].st = "needs-review-l10n"
    /\ LoggedUnits = {2}
    /\ units[1] = UnitsBefore[1]

\* the units of us a call with only_missing = om hands to translate_text
PassedWith(us, om) ==
    {i \in 1..Len(us) : ~SourceBlank(us[i]) /\ NeedsTranslation(us[i], om)}

\* the units of us whose target is not blank, is the source once both are
\* trimmed, and is not flagged
SameAsSource(us) ==
    {i \in 1..Len(us) :
        /\ us[i].has
        /\ ~AllBlank(us[i].tgt)
        /\ Strip(us[i].tgt) = Strip(us[i].src)
        /\ us[i].st # "needs-review-l10n"}

\* the units this call handed over are those of its own setting, without
\* being the set without only_missing and with the set with it, and the two
\* settings differ by the units of same
SettingsCompared(without, with, same) ==
    /\ LoggedUnits = (IF only_missing THEN with ELSE without)
    /\ without \subseteq with
    /\ with \ without = same

OverUnits(us) ==
    SettingsCompared(PassedWith(us, FALSE), PassedWith(us, TRUE), SameAsSource(us))

RECURSIVE CallsFor(_)
CallsFor(lg) ==
    IF lg = <<>> THEN <<>> ELSE Head(lg).r.calls \o CallsFor(Tail(lg))

RECURSIVE ErrorsFor(_)
ErrorsFor(lg) ==
    IF lg = <<>> THEN <<>>
    ELSE (IF Head(lg).r.err = NoError THEN <<>>
          ELSE <<[text |-> Slice(Head(lg).src, 1, Min(SnippetLen, Len(Head(lg).src))),
                  error |-> Head(lg).r.err]>>)
         \o ErrorsFor(Tail(lg))

\* the call returned its counts: a dry run, a run with nothing to write, or a
\* run whose write was verified
ReturnedCounts == pc = "done" /\ has_original /\ ~persist_failed /\ site = "none"

\* calls, error records and counts are those the file, only_missing, the
\* policy and the outcomes of the service give, in a dry run as in any other
SameWhateverDryRun(us) ==
    /\ LoggedUnits = PassedWith(us, only_missing)
    /\ \A j \in 1..Len(log) : log[j].src = us[log[j].unit].src
    /\ calls = CallsFor(log)
    /\ errors = ErrorsFor(log)
    /\ translated_count = Len(log)
    /\ error_count = Len(errors)

\* C30: for the same file and the same outcomes of the service, a dry run
\* makes the same service calls, records the same errors and returns the
\* same counts as a run that writes; translated_count counts every unit
\* that needed translation, skipped by the skip policy and failed ones
\* included, so error_count never exceeds it.
C30_DryRunSameCounts ==
    /\ LoopDone => SameWhateverDryRun(UnitsBefore)
    /\ error_count <= translated_count
    /\ ReturnedCounts => result = Returned(translated_count, error_count)

\* a dry run over a unit the skip policy skips and a unit whose service call
\* failed has returned (2, 1)
C30_Witness ==
    /\ dry_run
    /\ ReturnedCounts
    /\ Len(log) = 2
    /\ log[1].r.calls = <<>>
    /\ ~log[2].svc.ok /\ log[2].r.calls # <<>>
    /\ result = Returned(2, 1)

\* C27: under the strict policy the text translate_text returns passes
\* PlaceholderValidator.validate against the source text, whatever the
\* service did: answered with any text or raised.
C27_StrictOutputValidates ==
    (tpc = "done" /\ strict) => validate(text, ret.out).ok

\* a strict call whose answer failed validation has returned the source
C27_Witness ==
    /\ tpc = "done" /\ strict
    /\ Len(log) = 1 /\ log[1].svc.ok
    /\ ~validate(text, Restored(log[1].svc.txt, extract_placeholders(text).placeholders)).ok
    /\ ret.out = text

\* the units of us that need no translation without only_missing and hold
\* a target that is not blank
Settled(us) ==
    \A i \in 1..Len(us) :
        ~SourceBlank(us[i]) =>
            (us[i].has /\ ~AllBlank(us[i].tgt) /\ us[i].st # "needs-review-l10n")

\* every unit the call handed over holds the text translate_text returned,
\* its source when the translation failed, in the state translated
ProcessedTranslated ==
    \A j \in 1..Len(log) :
        /\ units[log[j].unit].st = "translated"
        /\ units[log[j].unit].tgt = log[j].r.out
        /\ ~AllBlank(log[j].r.out)
        /\ log[j].r.err # NoError => log[j].r.out = log[j].src

\* C28: after a run without dry_run and only_missing whose write was
\* verified, every processed unit is in the state translated with a
\* non-blank target, its source text where the translation failed; a second
\* run without only_missing makes no service call, does not write the file
\* and, once it has read the file, returns (0, 0).
C28_RerunIdempotent ==
    /\ (run = 1 /\ pc = "done" /\ ~dry_run /\ ~only_missing /\ ReportedWritten) =>
           (ProcessedTranslated /\ Settled(ParseUnits(disk)))
    /\ run = 2 =>
           /\ calls = <<>> /\ log = <<>>
           /\ ~wrote /\ disk = before
           /\ (pc = "done" /\ has_original) => result = Returned(0, 0)

\* the second run over a file the first run wrote has returned
C28_Witness ==
    /\ run = 2
    /\ pc = "done"
    /\ result = Returned(0, 0)
    /\ \E i \in 1..Len(units) : units[i].st = "translated" /\ units[i].tgt = T_Yo \o T_PctD
    /\ disk = before

\* ---------------------------------------------- the rate-limit pause
\* a pause followed the k-th counted unit exactly when k is a multiple of
\* PauseEvery, and the call for the j-th counted unit began after the pauses
\* due for the j - 1 units before it
PausedEveryTen ==
    /\ pauses = translated_count \div PauseEvery
    /\ \A j \in 1..Len(log) : log[j].paused = (j - 1) \div PauseEvery

\* C25 as stated: a pause follows the k-th counted unit exactly when k is a
\* positive multiple of ten, no call for the next unit starts before that
\* pause has ended, and a call that returns translatedCount n has paused
\* floor(n/10) times.
C25_PausesOfReturnedCount ==
    /\ PausedEveryTen
    /\ pc = "done" => pauses = result.translated \div PauseEvery

\* C25 amended: the same, for a call that returns its counts by line 327.
C25_PausesOfCountedUnits ==
    /\ PausedEveryTen
    /\ ReturnedCounts =>
           (result.translated = translated_count
            /\ pauses = result.translated \div PauseEvery)

\* a call that counted twenty-one units has returned after two pauses, the
\* second of them before the call for the twenty-first unit
C25_Witness ==
    /\ ReturnedCounts
    /\ result.translated = 2 * PauseEvery + 1
    /\ pauses = 2
    /\ Len(log) = 2 * PauseEvery + 1
    /\ log[2 * PauseEvery].paused = 1
    /\ log[2 * PauseEvery + 1].paused = 2

\* --------------------------------- the file operation of the front end
\* C26: when writing the rewritten file fails in process_xliff_file of
\* localization_app.py, the file holds its content of before the call once
\* the call has returned to the worker.
C26_GuiRollsBack ==
    (pc = "done" /\ persist_failed) => disk = before

\* ------------------------------------------------- stopping the worker
\* a thread that runs and has seen Stop pressed
Stopped(w) == w <= Len(workers) /\ workers[w].stopped /\ workers[w].pc # "dead"

\* the thread w has ended
Ended(w) == w <= Len(workers) /\ workers[w].pc = "dead"

\* Stop leaves every thread where it is
StopInterruptsNothing ==
    Stop => \A w \in 1..Len(workers) :
                /\ workers'[w].pc = workers[w].pc
                /\ workers'[w].files = workers[w].files

\* a thread that has seen Stop pressed starts no further language
StoppedStartsNoLanguage ==
    \A w \in 1..Len(workers) :
        (workers[w].stopped /\ workers[w].pc = "lang_loop") =>
            workers'[w].pc # "language"

\* what translation_finished leaves
FinishedState ==
    ~is_translating /\ translate_btn = "normal" /\ stop_btn = "disabled"

\* C24: Stop interrupts no call in flight; after Stop the worker ends once
\* the language it is at is finished, starting no further language, and
\* translation_finished then runs and leaves is_translating false, the
\* Start button enabled and the Stop button disabled.
C24_StopLetsWorkerEnd ==
    /\ [][StopInterruptsNothing /\ StoppedStartsNoLanguage]_vars
    /\ \A w \in 1..MaxWorkers : Stopped(w) ~> Ended(w)
    /\ \A w \in 1..MaxWorkers : Stopped(w) ~> FinishedState

====
